---- MODULE Spec2Model ----
(***************************************************************************)
(* Model of the SSH directory manager: the host-configuration codec        *)
(* (parseSSHConfig / writeSSHConfig and the add / update / delete          *)
(* mutations) and the snapshot manager (createBackup / restoreBackup) of   *)
(* src/src/main/fileSystem.ts.                                             *)
(*                                                                         *)
(* Text is a sequence of one-character strings, so that the codec's        *)
(* trimming, splitting, matching and joining are computed character by     *)
(* character, as the code does.                                            *)
(***************************************************************************)
EXTENDS Integers, Sequences, FiniteSets, TLC

VARIABLES
    cfgKind,      \* what sits at SSH_CONFIG_PATH: "absent", "file", "dir", "unreadable"
    cfgContent,   \* the text of the configuration file (when a regular file)
    last,         \* the last configuration operation, its arguments and its outcome
    nOps,         \* number of operations performed so far
    rt,           \* round-trip harness: entries, serialized text, parsed entries
    ssh,          \* SSH_DIR: what sits at the path, and the directory's entries
    store,        \* the backup directory: archive name -> archive
    tmp,          \* os.tmpdir(): temporary directory name -> extracted content
    now,          \* the clock read by Date.now() and new Date()
    r,            \* the restoreBackup call: position, options and bookkeeping
    nBackups,     \* number of createBackup requests so far
    calls,        \* the calls that stage files in os.tmpdir(), by caller
    lb,           \* the last listBackups / getBackupMetadata request and its result
    kl,           \* the key listing: its inputs, position and result
    pm            \* the permission manager: its inputs, position and result

cfgVars == <<cfgKind, cfgContent, last, nOps>>
bkVars == <<ssh, store, tmp, now, r, nBackups>>
auxVars == <<calls, lb, kl, pm>>
vars == <<cfgKind, cfgContent, last, nOps, rt, ssh, store, tmp, now, r, nBackups,
          calls, lb, kl, pm>>

-----------------------------------------------------------------------------
(* Bounds of the model *)

\* operations per behaviour
MaxOps == 2
\* lines of the initial configuration file
MaxLines == 2
\* entries handed to writeSSHConfig in the round-trip harness
MaxEntries == 2
\* createBackup requests per behaviour
MaxBackups == 1
\* the clock runs from 0 to MaxTime
MaxTime == 1
\* calls in flight at the same time
MaxCallers == 2
\* changes made to the configuration file around one listing of the keys
MaxChanges == 1

-----------------------------------------------------------------------------
(* Text helpers: JavaScript string operations on character sequences *)

\* the characters matched by \s and removed by String.prototype.trim
IsWs(c) == c \in {" ", "\t", "\r"}

UpperCase == <<"A","B","C","D","E","F","G","H","I","J","K","L","M",
               "N","O","P","Q","R","S","T","U","V","W","X","Y","Z">>
LowerCase == <<"a","b","c","d","e","f","g","h","i","j","k","l","m",
               "n","o","p","q","r","s","t","u","v","w","x","y","z">>

\* String.prototype.toLowerCase
toLowerCase(s) ==
    [i \in 1..Len(s) |->
        IF \E k \in 1..Len(UpperCase) : UpperCase[k] = s[i]
        THEN LowerCase[CHOOSE k \in 1..Len(UpperCase) : UpperCase[k] = s[i]]
        ELSE s[i]]

\* String.prototype.trim
trim(s) ==
    IF \A i \in 1..Len(s) : IsWs(s[i]) THEN <<>>
    ELSE LET lo == CHOOSE i \in 1..Len(s) :
                       ~IsWs(s[i]) /\ \A j \in 1..(i - 1) : IsWs(s[j])
             hi == CHOOSE i \in 1..Len(s) :
                       ~IsWs(s[i]) /\ \A j \in (i + 1)..Len(s) : IsWs(s[j])
         IN  SubSeq(s, lo, hi)

\* the k-th smallest element of a finite set of integers
nth(S, k) == CHOOSE p \in S : Cardinality({q \in S : q < p}) = k - 1

\* String.prototype.split('\n'): the pieces between consecutive newlines
splitLines(s) ==
    LET nl == {i \in 1..Len(s) : s[i] = "\n"}
        n == Cardinality(nl)
        cut(k) == IF k = 0 THEN 0 ELSE IF k = n + 1 THEN Len(s) + 1 ELSE nth(nl, k)
    IN  [k \in 1..(n + 1) |-> SubSeq(s, cut(k - 1) + 1, cut(k) - 1)]

\* String.prototype.split(/\s+/) on a trimmed, non-empty text: the maximal
\* runs of non-whitespace characters
splitWs(s) ==
    LET starts == {i \in 1..Len(s) : ~IsWs(s[i]) /\ (i = 1 \/ IsWs(s[i - 1]))}
        ends == {i \in 1..Len(s) : ~IsWs(s[i]) /\ (i = Len(s) \/ IsWs(s[i + 1]))}
    IN  [k \in 1..Cardinality(starts) |-> SubSeq(s, nth(starts, k), nth(ends, k))]

\* Array.prototype.join(' ')
RECURSIVE join(_)
join(parts) ==
    IF parts = <<>> THEN <<>>
    ELSE IF Len(parts) = 1 THEN parts[1]
    ELSE parts[1] \o <<" ">> \o join(Tail(parts))

Digits == <<"0","1","2","3","4","5","6","7","8","9">>
IsDigit(c) == \E k \in 1..10 : Digits[k] = c
DigitVal(c) == (CHOOSE k \in 1..10 : Digits[k] = c) - 1

\* a JavaScript number: an integer or NaN
Num(n) == [nan |-> FALSE, n |-> n]
NaN == [nan |-> TRUE, n |-> 0]

\* parseInt(value, 10): optional sign, then the leading run of digits; NaN
\* when there is none
RECURSIVE digitsVal(_, _, _)
digitsVal(s, i, acc) ==
    IF i > Len(s) \/ ~IsDigit(s[i]) THEN acc
    ELSE digitsVal(s, i + 1, acc * 10 + DigitVal(s[i]))

parseInt(value) ==
    LET s == trim(value)
        neg == s # <<>> /\ s[1] = "-"
        body == IF s # <<>> /\ s[1] \in {"-", "+"} THEN Tail(s) ELSE s
    IN  IF body = <<>> \/ ~IsDigit(body[1]) THEN NaN
        ELSE Num(IF neg THEN 0 - digitsVal(body, 1, 0) ELSE digitsVal(body, 1, 0))

\* `${n}` for a number
RECURSIVE natToString(_)
natToString(n) ==
    IF n < 10 THEN <<Digits[n + 1]>>
    ELSE natToString(n \div 10) \o <<Digits[(n % 10) + 1]>>

numToString(x) ==
    IF x.nan THEN <<"N","a","N">>
    ELSE IF x.n < 0 THEN <<"-">> \o natToString(0 - x.n)
    ELSE natToString(x.n)

-----------------------------------------------------------------------------
(* SSHConfig values.  An optional field is <<>> (undefined) or <<v>>.      *)
(* additionalOptions is the ordered sequence of <<key, value>> pairs of    *)
(* the JavaScript object (insertion order; an undefined mapping is the     *)
(* empty one).                                                             *)

None == <<>>
Some(v) == <<v>>

\* the value of process.env.HOME || process.env.USERPROFILE used by the parser
HOME == <<"/","u">>

\* currentHost = { host, hostname: '', additionalOptions: {} }
newHost(alias) ==
    [host |-> alias, hostname |-> <<>>, port |-> None, user |-> None,
     identityFile |-> None, preferredAuthentications |-> None,
     additionalOptions |-> <<>>]

\* obj[key] = value on an insertion-ordered object
setOption(opts, key, value) ==
    IF \E i \in 1..Len(opts) : opts[i][1] = key
    THEN [i \in 1..Len(opts) |-> IF opts[i][1] = key THEN <<key, value>> ELSE opts[i]]
    ELSE Append(opts, <<key, value>>)

\* line.match(/^Host\s+(.+)$/i) on a trimmed line: <<>> when there is no
\* match, else <<group 1>>.  `.` matches no line terminator.
hostMatch(line) ==
    IF /\ Len(line) >= 6
       /\ toLowerCase(SubSeq(line, 1, 4)) = <<"h","o","s","t">>
       /\ IsWs(line[5])
    THEN LET rest == SubSeq(line, 5, Len(line))
             first == CHOOSE i \in 1..Len(rest) :
                          /\ ~IsWs(rest[i])
                          /\ \A j \in 1..(i - 1) : IsWs(rest[j])
             grp == SubSeq(rest, first, Len(rest))
         IN  IF \E i \in 1..Len(grp) : grp[i] \in {"\r", "\n"} THEN <<>>
             ELSE <<grp>>
    ELSE <<>>

\* value.replace(/^~/, HOME)
expandHome(value) ==
    IF value # <<>> /\ value[1] = "~" THEN HOME \o Tail(value) ELSE value

\* the switch over key.toLowerCase() for one directive line inside a block
applyDirective(cur, line) ==
    LET parts == splitWs(line)
        key == parts[1]
        value == join(Tail(parts))
        k == toLowerCase(key)
    IN  IF k = <<"h","o","s","t","n","a","m","e">>
            THEN [cur EXCEPT !.hostname = value]
        ELSE IF k = <<"p","o","r","t">>
            THEN [cur EXCEPT !.port = Some(parseInt(value))]
        ELSE IF k = <<"u","s","e","r">>
            THEN [cur EXCEPT !.user = Some(value)]
        ELSE IF k = <<"i","d","e","n","t","i","t","y","f","i","l","e">>
            THEN [cur EXCEPT !.identityFile = Some(expandHome(value))]
        ELSE IF k = <<"p","r","e","f","e","r","r","e","d","a","u","t","h","e","n",
                      "t","i","c","a","t","i","o","n","s">>
            THEN [cur EXCEPT !.preferredAuthentications = Some(value)]
        ELSE [cur EXCEPT !.additionalOptions = setOption(@, key, value)]

\* `currentHost && currentHost.host && currentHost.hostname`: the entry in
\* progress is committed only when alias and hostname are both non-empty
commitMutantNoHostNameCheck(configs, cur) ==
    IF cur # <<>> /\ cur[1].host # <<>> THEN Append(configs, cur[1]) ELSE configs

commit(configs, cur) ==
    IF cur # <<>> /\ cur[1].host # <<>> /\ cur[1].hostname # <<>>
    THEN Append(configs, cur[1])
    ELSE configs

\* the loop over the lines; cur is <<>> (null) or <<the entry in progress>>
RECURSIVE parseLines(_, _, _, _)
parseLines(lines, i, cur, configs) ==
    IF i > Len(lines) THEN commit(configs, cur)
    ELSE LET line == trim(lines[i])
             m == hostMatch(line)
         IN  IF line = <<>> \/ line[1] = "#"
                 THEN parseLines(lines, i + 1, cur, configs)
             ELSE IF m # <<>>
                 THEN parseLines(lines, i + 1, <<newHost(trim(m[1]))>>,
                                 commit(configs, cur))
             ELSE IF cur # <<>>
                 THEN parseLines(lines, i + 1, <<applyDirective(cur[1], line)>>, configs)
             ELSE parseLines(lines, i + 1, cur, configs)

\* the body of parseSSHConfig once the content has been read
parseText(content) == parseLines(splitLines(content), 1, <<>>, <<>>)

-----------------------------------------------------------------------------
(* writeSSHConfig: the text generated for a sequence of entries *)

Header ==
    <<"#"," ","S","S","H"," ","C","o","n","f","i","g"," ","F","i","l","e","\n">> \o
    <<"#"," ","G","e","n","e","r","a","t","e","d"," ","b","y"," ","S","S","H"," ",
      "K","e","y"," ","M","a","n","a","g","e","r","\n","\n">>

\* a variant of Indent of two spaces
IndentMutantTwoSpaces == <<" "," ">>

Indent == <<" "," "," "," ">>

\* JavaScript truthiness of an optional string / number
truthyStr(o) == o # <<>> /\ o[1] # <<>>
truthyNum(o) == o # <<>> /\ ~o[1].nan /\ o[1].n # 0

RECURSIVE optionsText(_)
optionsText(opts) ==
    IF opts = <<>> THEN <<>>
    ELSE Indent \o opts[1][1] \o <<" ">> \o opts[1][2] \o <<"\n">>
         \o optionsText(Tail(opts))

blockText(c) ==
    <<"H","o","s","t"," ">> \o c.host \o <<"\n">>
    \o Indent \o <<"H","o","s","t","N","a","m","e"," ">> \o c.hostname \o <<"\n">>
    \o (IF truthyNum(c.port)
        THEN Indent \o <<"P","o","r","t"," ">> \o numToString(c.port[1]) \o <<"\n">>
        ELSE <<>>)
    \o (IF truthyStr(c.user)
        THEN Indent \o <<"U","s","e","r"," ">> \o c.user[1] \o <<"\n">>
        ELSE <<>>)
    \o (IF truthyStr(c.identityFile)
        THEN Indent \o <<"I","d","e","n","t","i","t","y","F","i","l","e"," ">>
             \o c.identityFile[1] \o <<"\n">>
        ELSE <<>>)
    \o (IF truthyStr(c.preferredAuthentications)
        THEN Indent \o <<"P","r","e","f","e","r","r","e","d","A","u","t","h","e","n",
                         "t","i","c","a","t","i","o","n","s"," ">>
             \o c.preferredAuthentications[1] \o <<"\n">>
        ELSE <<>>)
    \o optionsText(c.additionalOptions)
    \o <<"\n">>

RECURSIVE blocksText(_)
blocksText(configs) ==
    IF configs = <<>> THEN <<>>
    ELSE blockText(configs[1]) \o blocksText(Tail(configs))

serialize(configs) == Header \o blocksText(configs)

-----------------------------------------------------------------------------
(* The configuration file and the operations on it *)

\* fileExists(SSH_CONFIG_PATH): fs.stat succeeds and reports a regular file
fileExists(kind) == kind \in {"file", "unreadable"}

\* parseSSHConfig(): [] when fileExists is false, an error when the file
\* cannot be read, else the parsed entries
parseSSHConfig ==
    IF ~fileExists(cfgKind) THEN [ok |-> TRUE, configs |-> <<>>]
    ELSE IF cfgKind = "unreadable" THEN [ok |-> FALSE, configs |-> <<>>]
    ELSE [ok |-> TRUE, configs |-> parseText(cfgContent)]

\* existingConfigs.some(c => c.host === config.host)
hostExists(configs, host) == \E i \in 1..Len(configs) : configs[i].host = host

\* existingConfigs.findIndex(c => c.host === host); 0 stands for -1
findIndex(configs, host) ==
    IF hostExists(configs, host)
    THEN CHOOSE i \in 1..Len(configs) :
             /\ configs[i].host = host
             /\ \A j \in 1..(i - 1) : configs[j].host # host
    ELSE 0

\* existingConfigs.filter(c => c.host !== host)
RECURSIVE filterHost(_, _)
filterHost(configs, host) ==
    IF configs = <<>> THEN <<>>
    ELSE IF configs[1].host # host
         THEN <<configs[1]>> \o filterHost(Tail(configs), host)
         ELSE filterHost(Tail(configs), host)

\* what an operation decided: the error it throws ("none" when it goes on to
\* write) and the entries it hands to writeSSHConfig
Decision(error, configs) == [error |-> error, configs |-> configs]

\* addHostConfig between the parse and the write
addDecisionMutantNoCheck(existing, config) ==
    Decision("none", Append(existing, config))

addDecision(existing, config) ==
    IF hostExists(existing, config.host) THEN Decision("exists", existing)
    ELSE Decision("none", Append(existing, config))

\* updateHostConfig between the parse and the write
updateDecisionMutantNoThrow(existing, host, newConfig) ==
    Decision("none", IF findIndex(existing, host) = 0 THEN Append(existing, newConfig)
                     ELSE [existing EXCEPT ![findIndex(existing, host)] = newConfig])

updateDecision(existing, host, newConfig) ==
    IF findIndex(existing, host) = 0 THEN Decision("notfound", existing)
    ELSE Decision("none", [existing EXCEPT ![findIndex(existing, host)] = newConfig])

\* deleteHostConfig between the parse and the write
deleteDecision(existing, host) ==
    IF Len(filterHost(existing, host)) = Len(existing)
    THEN Decision("notfound", existing)
    ELSE Decision("none", filterHost(existing, host))

Outcome(op, host, result, error, value) ==
    [op |-> op, host |-> host, result |-> result, error |-> error, value |-> value]

\* writeSSHConfig(configs): fs.writeFile replaces the whole file; it fails
\* (EISDIR) when a directory sits at the path
writeSSHConfig(op, host, configs) ==
    IF cfgKind = "dir"
    THEN /\ last' = Outcome(op, host, "error", "write", <<>>)
         /\ UNCHANGED <<cfgKind, cfgContent>>
    ELSE /\ cfgKind' = "file"
         /\ cfgContent' = serialize(configs)
         /\ last' = Outcome(op, host, "ok", "none", <<>>)

\* the try / catch around parse, decision and write shared by the mutations;
\* d is what the operation decides on the parsed entries
mutate(op, host, d) ==
    IF ~parseSSHConfig.ok
    THEN /\ last' = Outcome(op, host, "error", "read", <<>>)
         /\ UNCHANGED <<cfgKind, cfgContent>>
    ELSE IF d.error # "none"
    THEN /\ last' = Outcome(op, host, "error", d.error, <<>>)
         /\ UNCHANGED <<cfgKind, cfgContent>>
    ELSE writeSSHConfig(op, host, d.configs)

addHostConfig(config) ==
    mutate("add", config.host, addDecision(parseSSHConfig.configs, config))

updateHostConfig(host, newConfig) ==
    mutate("update", host, updateDecision(parseSSHConfig.configs, host, newConfig))

deleteHostConfig(host) ==
    mutate("delete", host, deleteDecision(parseSSHConfig.configs, host))

\* a caller reads the configuration (the parseConfig request)
ParseConfig ==
    /\ last' = LET parsed == parseSSHConfig
               IN  Outcome("parse", <<>>, IF parsed.ok THEN "ok" ELSE "error",
                           IF parsed.ok THEN "none" ELSE "read", parsed.configs)
    /\ UNCHANGED <<cfgKind, cfgContent>>

-----------------------------------------------------------------------------
(* Inputs *)

Entry(host, hostname, port, user, identityFile, auth, options) ==
    [host |-> host, hostname |-> hostname, port |-> port, user |-> user,
     identityFile |-> identityFile, preferredAuthentications |-> auth,
     additionalOptions |-> options]

\* the aliases the callers name
Aliases == {<<"a">>, <<"b">>}

\* entries handed to addHostConfig / updateHostConfig; the last one has an
\* empty hostname, which the operations do not validate
CallerConfigs ==
    { Entry(<<"a">>, <<"g">>, None, None, Some(<<"~","/","k">>), None,
            << <<<<"F","o","o">>, <<"x">>>> >>),
      Entry(<<"b">>, <<"h">>, Some(Num(22)), Some(<<"u">>), None, Some(<<"p">>), <<>>),
      Entry(<<"b">>, <<>>, None, None, None, None, <<>>) }

\* lines a configuration file found on disk is made of
FileLines ==
    { <<"H","o","s","t"," ","a">>,
      <<"h","o","s","t","\t"," ","b"," ">>,
      <<" "," ","H","o","s","t","N","a","m","e"," ","h">>,
      <<"h","o","s","t","n","a","m","e">>,
      <<"#"," ","H","o","s","t"," ","c">>,
      <<"F","o","o"," "," ","x"," "," ","y">> }

RECURSIVE joinLines(_)
joinLines(lines) ==
    IF lines = <<>> THEN <<>>
    ELSE IF Len(lines) = 1 THEN lines[1]
    ELSE lines[1] \o <<"\n">> \o joinLines(Tail(lines))

FileContents ==
    {joinLines(ls) : ls \in UNION {[1..n -> FileLines] : n \in 0..MaxLines}}

NoOutcome == Outcome("none", <<>>, "ok", "none", <<>>)

RtIdle ==
    [phase |-> "idle", entries |-> <<>>, text |-> <<>>, parsed |-> <<>>,
     again |-> <<>>]

InitConfig ==
    /\ cfgKind \in {"absent", "file", "dir", "unreadable"}
    /\ IF cfgKind = "file"
       THEN cfgContent \in FileContents
       ELSE cfgContent = <<>>
    /\ last = NoOutcome
    /\ nOps = 0

\* a value of r before restoreBackup is called
Options(createBackup, overwriteExisting, mergeDuplicates) ==
    [createBackup |-> createBackup, overwriteExisting |-> overwriteExisting,
     mergeDuplicates |-> mergeDuplicates]

NoDir == [kind |-> "absent", entries |-> <<>>]

RestoreIdle ==
    [pc |-> "idle", path |-> <<"none">>, opts |-> Options(FALSE, FALSE, FALSE),
     pre |-> NoDir, src |-> <<>>, tmpName |-> <<"none">>, files |-> {}, todo |-> {},
     snap |-> "none", nSnap |-> 0, snapOf |-> <<>>, wrote |-> {}, failed |-> {},
     skipped |-> {}, error |-> "none", phases |-> <<"idle">>]

BackupIdle ==
    /\ ssh = NoDir
    /\ store = <<>>
    /\ tmp = <<>>
    /\ now = 0
    /\ r = RestoreIdle
    /\ nBackups = 0

\* the callers that may have a call in flight at the same time
Callers == 1..MaxCallers

\* no call is in flight
CallIdle == [pc |-> "idle", kind |-> "none", tmpName |-> <<"none">>, error |-> "none"]

\* no listing of the backups is asked for
ListIdle ==
    [op |-> "none", path |-> <<"none">>, dir |-> <<>>, result |-> "none",
     value |-> <<>>]

\* no key listing is asked for
KeysIdle ==
    [phase |-> "idle", files |-> <<>>, i |-> 0, keys |-> <<>>, tried |-> <<>>,
     nChanges |-> 0]

\* no permission request is made
PermIdle ==
    [phase |-> "idle", username |-> <<>>,
     dir |-> [exists |-> FALSE, readable |-> FALSE, files |-> <<>>],
     i |-> 0, statuses |-> <<>>, j |-> 0, fixed |-> 0, failed |-> 0,
     errors |-> <<>>, attempts |-> <<>>]

AuxIdle ==
    /\ calls = [c \in Callers |-> CallIdle]
    /\ lb = ListIdle
    /\ kl = KeysIdle
    /\ pm = PermIdle

Init ==
    /\ InitConfig
    /\ rt = RtIdle
    /\ BackupIdle
    /\ AuxIdle

\* one request of the application at a time (section 5 of the design)
Request ==
    /\ nOps < MaxOps
    /\ nOps' = nOps + 1
    /\ UNCHANGED <<rt, bkVars, auxVars>>

AddHost ==
    /\ Request
    /\ \E config \in CallerConfigs : addHostConfig(config)

UpdateHost ==
    /\ Request
    /\ \E host \in Aliases, config \in CallerConfigs : updateHostConfig(host, config)

DeleteHost ==
    /\ Request
    /\ \E host \in Aliases : deleteHostConfig(host)

ReadHosts ==
    /\ Request
    /\ ParseConfig

Next ==
    \/ ReadHosts
    \/ AddHost
    \/ UpdateHost
    \/ DeleteHost

Spec == Init /\ [][Next]_vars

-----------------------------------------------------------------------------
(* Properties of the configuration operations *)

aliasesOf(configs) == [i \in 1..Len(configs) |-> configs[i].host]

\* the entries a caller gets from parseSSHConfig in the current state
visible == IF parseSSHConfig.ok THEN parseSSHConfig.configs ELSE <<>>

\* some entry parseSSHConfig returns has this alias
aliasPresent(host) == \E i \in 1..Len(visible) : aliasesOf(visible)[i] = host

\* C2: addHostConfig with an alias that parseSSHConfig returns fails with an
\* error and leaves the configuration file exactly as it was.
C2_DuplicateAliasRejected ==
    [][(last'.op = "add" /\ nOps' = nOps + 1 /\ aliasPresent(last'.host))
        => (last'.result = "error" /\ UNCHANGED <<cfgKind, cfgContent>>)]_vars

C2_Witness ==
    /\ last.op = "add"
    /\ last.error = "exists"
    /\ cfgKind = "file"
    /\ aliasPresent(last.host)

\* C3: updateHostConfig and deleteHostConfig fail with a not-found error when
\* no entry returned by parseSSHConfig has the alias, and leave the
\* configuration file unmodified.
C3_AbsentAliasRejected ==
    [][(/\ last'.op \in {"update", "delete"}
        /\ nOps' = nOps + 1
        /\ parseSSHConfig.ok
        /\ ~aliasPresent(last'.host))
        => (/\ last'.result = "error"
            /\ last'.error = "notfound"
            /\ UNCHANGED <<cfgKind, cfgContent>>)]_vars

C3_Witness ==
    /\ last.op \in {"update", "delete"}
    /\ last.error = "notfound"
    /\ cfgKind = "file"
    /\ Len(visible) > 0

\* The Host blocks of a text, read off the text itself: the lines that open a
\* block, and for each whether the last HostName directive before the next
\* block carries a value.
textLines(content) ==
    [k \in 1..Len(splitLines(content)) |-> trim(splitLines(content)[k])]

isSkipped(line) == line = <<>> \/ line[1] = "#"

hostLines(content) ==
    {k \in 1..Len(textLines(content)) :
        ~isSkipped(textLines(content)[k]) /\ hostMatch(textLines(content)[k]) # <<>>}

blockEnd(content, k) ==
    IF \E h \in hostLines(content) : h > k
    THEN (CHOOSE h \in hostLines(content) :
              h > k /\ \A g \in hostLines(content) : g > k => h <= g) - 1
    ELSE Len(textLines(content))

isHostNameLine(line) ==
    /\ ~isSkipped(line)
    /\ toLowerCase(splitWs(line)[1]) = <<"h","o","s","t","n","a","m","e">>

hasHostName(content, k) ==
    LET hn == {j \in (k + 1)..blockEnd(content, k) : isHostNameLine(textLines(content)[j])}
    IN  /\ hn # {}
        /\ LET lastHn == CHOOSE j \in hn : \A i \in hn : i <= j
           IN  Len(splitWs(textLines(content)[lastHn])) >= 2

completeBlocks(content) == {k \in hostLines(content) : hasHostName(content, k)}

\* C4: every entry parseSSHConfig returns has a non-empty alias and a
\* non-empty hostname; the entries are exactly the Host blocks of the file
\* whose HostName directive carries a value, in file order, so a block
\* without HostName never appears; and parsing a readable file raises no error.
C4_IncompleteBlocksDropped ==
    cfgKind = "file" =>
        /\ parseSSHConfig.ok
        /\ \A i \in 1..Len(visible) :
               visible[i].host # <<>> /\ visible[i].hostname # <<>>
        /\ Len(visible) = Cardinality(completeBlocks(cfgContent))
        /\ \A i \in 1..Len(visible) :
               visible[i].host =
                   trim(hostMatch(textLines(cfgContent)[nth(completeBlocks(cfgContent), i)])[1])

\* a file with a Host block that lacks a hostname, after a mutation wrote it
C4_Witness ==
    /\ cfgKind = "file"
    /\ last.op = "add"
    /\ last.result = "ok"
    /\ Cardinality(hostLines(cfgContent)) > Len(visible)
    /\ Len(visible) > 0

\* C5 (as claimed): parseSSHConfig returns the empty sequence when the file
\* does not exist, and fails with an error when something exists at the path
\* that cannot be read (access denied, or not a regular file).
C5_UnreadableIsAnError ==
    last.op = "parse" =>
        /\ cfgKind = "absent" => (last.result = "ok" /\ last.value = <<>>)
        /\ cfgKind \in {"dir", "unreadable"} => last.result = "error"

-----------------------------------------------------------------------------
(* Round trip of the codec: entries are written with writeSSHConfig and    *)
(* read back with parseSSHConfig                                           *)

Opt(foo, bar) ==
    IF foo /\ bar THEN << <<<<"F","o","o">>, <<"x">>>>, <<<<"B","a","r">>, <<"y">>>> >>
    ELSE IF foo THEN << <<<<"F","o","o">>, <<"x">>>> >>
    ELSE IF bar THEN << <<<<"B","a","r">>, <<"y"," "," ","z">>>> >>
    ELSE <<>>

\* host entries with a non-empty alias and a non-empty hostname: each typed
\* field absent or set, an identity file with and without the home
\* shorthand, and additional directives
RtConfigs ==
    UNION { { Entry(a, <<"h">>, None, None, None, None, <<>>),
              Entry(a, <<"h">>, Some(Num(22)), None, None, None, <<>>),
              Entry(a, <<"h">>, None, Some(<<"u">>), None, None, <<>>),
              Entry(a, <<"h">>, None, None, Some(<<"/","k">>), None, <<>>),
              Entry(a, <<"h">>, None, None, Some(<<"~","/","k">>), None, <<>>),
              Entry(a, <<"h">>, None, None, None, Some(<<"p">>), <<>>),
              Entry(a, <<"h">>, None, None, None, None, Opt(TRUE, FALSE)),
              Entry(a, <<"h">>, None, None, None, None, Opt(TRUE, TRUE)),
              Entry(a, <<"h">>, None, None, None, None, Opt(FALSE, TRUE)),
              Entry(a, <<"g">>, Some(Num(2205)), Some(<<"u">>), Some(<<"/","k">>),
                    Some(<<"p">>), Opt(TRUE, TRUE)) }
            : a \in {<<"a">>, <<"b">>} }

uniqueAliases(configs) ==
    \A i, j \in 1..Len(configs) : configs[i].host = configs[j].host => i = j

RtEntrySeqs ==
    {es \in UNION {[1..n -> RtConfigs] : n \in 0..MaxEntries} : uniqueAliases(es)}

ConfigIdle ==
    /\ cfgKind = "absent"
    /\ cfgContent = <<>>
    /\ last = NoOutcome
    /\ nOps = 0

InitCodec ==
    /\ ConfigIdle
    /\ BackupIdle
    /\ AuxIdle
    /\ rt \in {[RtIdle EXCEPT !.phase = "entries", !.entries = es] :
                  es \in RtEntrySeqs}

\* writeSSHConfig(entries)
RtWrite ==
    /\ rt.phase = "entries"
    /\ writeSSHConfig("write", <<>>, rt.entries)
    /\ rt' = [rt EXCEPT !.phase = "written", !.text = cfgContent']
    /\ UNCHANGED <<nOps, bkVars, auxVars>>

\* parseSSHConfig() on what was written
RtParse ==
    /\ rt.phase = "written"
    /\ rt' = [rt EXCEPT !.phase = "parsed", !.parsed = parseSSHConfig.configs]
    /\ UNCHANGED <<cfgVars, bkVars, auxVars>>

\* writeSSHConfig(entries) once more, over the file of the first call
RtWriteAgain ==
    /\ rt.phase = "parsed"
    /\ writeSSHConfig("write", <<>>, rt.entries)
    /\ rt' = [rt EXCEPT !.phase = "rewritten", !.again = cfgContent']
    /\ UNCHANGED <<nOps, bkVars, auxVars>>

NextCodec ==
    \/ RtWrite
    \/ RtParse
    \/ RtWriteAgain

SpecCodec == InitCodec /\ [][NextCodec]_vars

\* C1 (as claimed): for entries with unique non-empty aliases and non-empty
\* hostnames, parsing what writeSSHConfig wrote yields the same entries in
\* the same order, equal in every typed field and in the additional
\* directives.
C1_RoundTrip ==
    rt.phase = "parsed" => rt.parsed = rt.entries

-----------------------------------------------------------------------------
(* The snapshot manager.  A file name is a tuple: <<"a">> is a plain name, *)
(* <<"a", t>> is `a.restored-<t>`, <<"ssh_backup", t>> is the archive      *)
(* named after the clock reading t, <<"ssh-restore", t>> the temporary     *)
(* directory.  A directory is a function from names to entries.            *)

MetaName == <<"backup-metadata.json">>

File(d) == [kind |-> "file", data |-> d]
SubDir == [kind |-> "dir", data |-> "-"]

put(f, n, v) == [m \in DOMAIN f \cup {n} |-> IF m = n THEN v ELSE f[m]]
drop(f, n) == [m \in DOMAIN f \ {n} |-> f[m]]
only(f, S) == [m \in DOMAIN f \cap S |-> f[m]]

\* fileExists(path) for a path inside a directory
isFile(dir, n) == n \in DOMAIN dir /\ dir[n].kind = "file"

isDir(dir, n) == n \in DOMAIN dir /\ dir[n].kind = "dir"

regularFiles(dir) == {n \in DOMAIN dir : dir[n].kind = "file"}

\* `${BACKUP_FILE_PREFIX}${new Date().toISOString()...}${BACKUP_FILE_EXTENSION}`
backupFileName(t) == <<"ssh_backup", t>>

\* `ssh-restore-${Date.now()}`
restoreTempName(t) == <<"ssh-restore", t>>

\* `${file}.restored-${Date.now()}`
restoredName(file, t) == Append(file, t)

\* the archive createBackup makes of a directory: fs.copyFile stages the
\* regular files (copying a directory fails and is logged), the metadata
\* file is then written into the staging directory under MetaName, replacing
\* a staged file of that name, and tar packs the staging directory.
\* manifest is metadata.files: every name listFiles returned, and fileCount
\* their number, both computed before the copies are tried.  src records
\* the directory the archive was made from.
archiveOf(entries, t) ==
    [readable |-> TRUE,
     entries |-> only(entries, regularFiles(entries) \ {MetaName}),
     meta |-> "valid",
     manifest |-> DOMAIN entries,
     fileCount |-> Cardinality(DOMAIN entries),
     createdAt |-> t,
     src |-> <<entries>>]

\* createBackup(destinationPath): it throws when SSH_DIR is no directory or
\* when tar fails; otherwise the archive named after the clock is written,
\* replacing an archive of the same name
createBackup(tarFails) ==
    IF ssh.kind # "dir" \/ tarFails
    THEN [ok |-> FALSE, store |-> store]
    ELSE [ok |-> TRUE,
          store |-> put(store, backupFileName(now), archiveOf(ssh.entries, now))]

\* restoreBackup after the backup file was found: the pre-restore snapshot
\* is taken when it is asked for and SSH_DIR is a directory
afterFoundMutantNoSnapshot(opts) == "extract"

afterFound(opts) ==
    IF opts.createBackup /\ ssh.kind = "dir" THEN "snapshot" ELSE "extract"

\* the try / catch around the pre-restore createBackup: the error is logged
\* and the call continues
afterSnapshot(ok) == [pc |-> "extract", error |-> "none"]

\* the branches taken for one extracted file
conflictActionMutantMergeFirst(destExists, opts) ==
    IF destExists /\ opts.mergeDuplicates THEN "merge"
    ELSE IF destExists /\ ~opts.overwriteExisting THEN "skip"
    ELSE "copy"

conflictAction(destExists, opts) ==
    IF destExists /\ ~opts.overwriteExisting
    THEN IF opts.mergeDuplicates THEN "merge" ELSE "skip"
    ELSE "copy"

\* fs.copyFile(source, dest): it fails when the source is a directory or a
\* directory sits at the destination; otherwise the destination is created
\* or replaced
copyFile(dir, source, dest) ==
    IF source.kind # "file" \/ isDir(dir, dest)
    THEN [ok |-> FALSE, dir |-> dir]
    ELSE [ok |-> TRUE, dir |-> put(dir, dest, File(source.data))]

\* r moves to another position
goto(rec, pc) == [rec EXCEPT !.pc = pc, !.phases = Append(@, pc)]

restoreIdle == r.pc \in {"idle"}

\* restoreBackup(options) up to the check of the backup file
BeginRestore ==
    /\ restoreIdle
    /\ \E path \in DOMAIN store \cup {<<"missing">>}, cb, ow, mg \in BOOLEAN :
         LET opts == Options(cb, ow, mg)
             called == [r EXCEPT !.path = path, !.opts = opts, !.pre = ssh]
         IN  IF path \notin DOMAIN store
             THEN r' = goto([called EXCEPT !.error = "missing"], "threw")
             ELSE r' = goto([called EXCEPT !.src = store[path].src], afterFound(opts))
    /\ UNCHANGED <<ssh, store, tmp, now, nBackups, cfgVars, rt, auxVars>>

\* the pre-restore createBackup(path.dirname(currentBackupPath))
SafetySnapshot ==
    /\ r.pc = "snapshot"
    /\ \E tarFails \in BOOLEAN :
         LET res == createBackup(tarFails)
             nx == afterSnapshot(res.ok)
         IN  /\ store' = res.store
             /\ r' = goto([r EXCEPT !.snap = IF res.ok THEN "created" ELSE "failed",
                                    !.nSnap = @ + 1,
                                    !.snapOf = IF res.ok
                                               THEN res.store[backupFileName(now)].src
                                               ELSE <<>>,
                                    !.error = nx.error], nx.pc)
    /\ UNCHANGED <<ssh, tmp, now, nBackups, cfgVars, rt, auxVars>>

\* mkdir of the temporary directory, tar -xzf, the read of the metadata,
\* mkdir of SSH_DIR and the listing of the extracted files
Extract ==
    /\ r.pc = "extract"
    /\ LET tn == restoreTempName(now)
           archive == store[r.path]
           named == [r EXCEPT !.tmpName = tn]
       IN  IF ~archive.readable
           THEN /\ tmp' = put(tmp, tn, <<>>)
                /\ r' = goto([named EXCEPT !.error = "unreadable"], "cleanup")
                /\ UNCHANGED ssh
           ELSE /\ tmp' = put(tmp, tn, archive.entries)
                /\ IF archive.meta = "malformed"
                   THEN /\ r' = goto([named EXCEPT !.error = "metadata"], "cleanup")
                        /\ UNCHANGED ssh
                   ELSE IF ssh.kind = "file"
                   THEN /\ r' = goto([named EXCEPT !.error = "sshdir"], "cleanup")
                        /\ UNCHANGED ssh
                   ELSE /\ ssh' = [ssh EXCEPT !.kind = "dir"]
                        /\ r' = goto([named EXCEPT
                                         !.files = DOMAIN archive.entries \ {MetaName},
                                         !.todo = DOMAIN archive.entries \ {MetaName}],
                                     "resolve")
    /\ UNCHANGED <<store, now, nBackups, cfgVars, rt, auxVars>>

\* one iteration of the loop over restoreFiles
ResolveFile ==
    /\ r.pc = "resolve"
    /\ \E file \in r.todo :
         LET source == tmp[r.tmpName][file]
             action == conflictAction(isFile(ssh.entries, file), r.opts)
             dest == IF action = "merge" THEN restoredName(file, now) ELSE file
             res == copyFile(ssh.entries, source, dest)
             rest == [r EXCEPT !.todo = @ \ {file}]
         IN  IF action = "skip"
             THEN /\ r' = [rest EXCEPT !.skipped = @ \cup {file}]
                  /\ UNCHANGED ssh
             ELSE IF res.ok
             THEN /\ ssh' = [ssh EXCEPT !.entries = res.dir]
                  /\ r' = [rest EXCEPT !.wrote = @ \cup {dest}]
             ELSE /\ r' = [rest EXCEPT !.failed = @ \cup {file}]
                  /\ UNCHANGED ssh
    /\ UNCHANGED <<store, tmp, now, nBackups, cfgVars, rt, auxVars>>

\* the loop is over
EndResolve ==
    /\ r.pc = "resolve"
    /\ r.todo = {}
    /\ r' = goto(r, "cleanup")
    /\ UNCHANGED <<ssh, store, tmp, now, nBackups, cfgVars, rt, auxVars>>

\* finally: fs.rm of the temporary directory; then the call returns, or
\* rethrows the error that ended the try block
Cleanup ==
    /\ r.pc = "cleanup"
    /\ tmp' = drop(tmp, r.tmpName)
    /\ r' = goto(r, IF r.error = "none" THEN "done" ELSE "threw")
    /\ UNCHANGED <<ssh, store, now, nBackups, cfgVars, rt, auxVars>>

\* a createBackup request of the user, into the backup directory
CreateBackup ==
    /\ r.pc \in {"idle", "done", "threw"}
    /\ nBackups < MaxBackups
    /\ nBackups' = nBackups + 1
    /\ \E tarFails \in BOOLEAN : store' = createBackup(tarFails).store
    /\ UNCHANGED <<ssh, tmp, now, r, cfgVars, rt, auxVars>>

\* the archive is taken to a machine whose SSH directory is empty
EmptySshDir ==
    /\ r.pc = "idle"
    /\ ssh.kind = "dir"
    /\ ssh.entries # <<>>
    /\ ssh' = [ssh EXCEPT !.entries = <<>>]
    /\ UNCHANGED <<store, tmp, now, r, nBackups, cfgVars, rt, auxVars>>

\* the clock advances
Tick ==
    /\ now < MaxTime
    /\ now' = now + 1
    /\ UNCHANGED <<ssh, store, tmp, r, nBackups, cfgVars, rt, auxVars>>

\* directories found at SSH_DIR
DirOf(entries) == [kind |-> "dir", entries |-> entries]

InitialDirs ==
    { NoDir,
      [kind |-> "file", entries |-> <<>>],
      DirOf(<<>>),
      DirOf(put(<<>>, <<"a">>, File("d1"))),
      DirOf(put(put(<<>>, <<"a">>, File("d1")), <<"b">>, File("d2"))),
      DirOf(put(put(<<>>, <<"a">>, File("d2")), MetaName, File("d1"))),
      DirOf(put(put(<<>>, <<"a">>, File("d2")), restoredName(<<"a">>, 0), File("d2"))),
      DirOf(put(put(<<>>, <<"a">>, SubDir), <<"b">>, File("d1"))) }

\* an archive that was not made by createBackup
Foreign(readable, entries, meta) ==
    [readable |-> readable, entries |-> entries, meta |-> meta,
     manifest |-> {}, fileCount |-> 0, createdAt |-> 0, src |-> <<>>]

InitialStores ==
    { <<>> } \cup
    { put(<<>>, <<"ext">>, x) :
        x \in { Foreign(TRUE, put(put(<<>>, <<"a">>, File("d1")), <<"b">>, File("d1")),
                        "none"),
                Foreign(TRUE, put(<<>>, <<"a">>, File("d1")), "malformed"),
                Foreign(TRUE, put(put(<<>>, <<"a">>, File("d1")), <<"b">>, SubDir),
                        "valid"),
                Foreign(FALSE, <<>>, "none") } }

InitBackup ==
    /\ ConfigIdle
    /\ rt = RtIdle
    /\ ssh \in InitialDirs
    /\ store \in InitialStores
    /\ tmp = <<>>
    /\ now = 0
    /\ r = RestoreIdle
    /\ nBackups = 0
    /\ AuxIdle

NextBackup ==
    \/ CreateBackup
    \/ EmptySshDir
    \/ Tick
    \/ BeginRestore
    \/ SafetySnapshot
    \/ Extract
    \/ ResolveFile
    \/ EndResolve
    \/ Cleanup

SpecBackup == InitBackup /\ [][NextBackup]_vars

-----------------------------------------------------------------------------
(* Properties of the snapshot manager *)

neitherFlag == ~r.opts.overwriteExisting /\ ~r.opts.mergeDuplicates

onlyRegularFiles(entries) == \A n \in DOMAIN entries : entries[n].kind = "file"

\* C6 (as claimed): a backup made of an SSH directory holding the regular
\* files F, restored into an empty SSH directory with overwriteExisting and
\* mergeDuplicates both false, leaves exactly the files of F there, each with
\* its content.  (Stated for a restore without the pre-restore snapshot, so
\* that no second archive is written between the backup and the restore.)
C6_BackupRestoreRoundTrip ==
    (/\ r.pc = "done"
     /\ neitherFlag
     /\ ~r.opts.createBackup
     /\ r.pre = DirOf(<<>>)
     /\ r.src # <<>>
     /\ onlyRegularFiles(r.src[1]))
    => ssh.entries = r.src[1]

\* the file a step of the loop took from the list
resolved == CHOOSE file \in r.todo : file \notin r'.todo

\* C7: every extracted file other than the metadata file is handled by the
\* conflict policy: no regular file at the destination, or overwriteExisting
\* set: the file is copied over the destination; else with mergeDuplicates
\* the file is copied to `<file>.restored-<timestamp>` and the destination
\* keeps its content, both being present; else the file is skipped; in
\* every case the loop goes on.  (A copy that fails changes nothing.)
C7_ConflictPolicy ==
    [][/\ (r.pc = "extract" /\ r'.pc = "resolve") =>
            r'.todo = DOMAIN tmp'[r'.tmpName] \ {MetaName}
       /\ (r.pc = "resolve" /\ r'.pc # "resolve") => r.todo = {}
       /\ (r.pc = "resolve" /\ r'.todo # r.todo) =>
        LET file == resolved
            source == tmp[r.tmpName][file]
            existed == isFile(ssh.entries, file)
            merged == restoredName(file, now)
            copied(dest) ==
                IF source.kind = "file" /\ ~isDir(ssh.entries, dest)
                THEN ssh'.entries = put(ssh.entries, dest, File(source.data))
                ELSE ssh' = ssh
        IN  /\ file # MetaName
            /\ r.todo \subseteq DOMAIN tmp[r.tmpName]
            /\ r'.pc = "resolve"
            /\ r'.error = "none"
            /\ (~existed \/ r.opts.overwriteExisting) => copied(file)
            /\ (existed /\ ~r.opts.overwriteExisting /\ r.opts.mergeDuplicates) =>
                   /\ copied(merged)
                   /\ isFile(ssh'.entries, file)
                   /\ ssh'.entries[file] = ssh.entries[file]
                   /\ source.kind = "file" /\ ~isDir(ssh.entries, merged)
                          => isFile(ssh'.entries, merged)
            /\ (existed /\ ~r.opts.overwriteExisting /\ ~r.opts.mergeDuplicates) =>
                   ssh' = ssh /\ file \in r'.skipped]_vars

\* a merge was made: the archived file sits under the new name next to the
\* untouched destination, and an overwrite and a skip are reachable too
C7_Witness ==
    /\ r.pc = "done"
    /\ r.opts.mergeDuplicates
    /\ ~r.opts.overwriteExisting
    /\ \E n \in r.wrote :
          /\ Len(n) = 2
          /\ isFile(ssh.entries, <<n[1]>>)
          /\ isFile(r.pre.entries, <<n[1]>>)
          /\ ssh.entries[<<n[1]>>] = r.pre.entries[<<n[1]>>]
          /\ ssh.entries[n] # ssh.entries[<<n[1]>>]

\* C8 (as claimed): with both flags false, a restore into a directory that
\* already holds every file of the archive restores nothing and leaves the
\* directory as it was; and with overwriteExisting false no file that
\* existed before the restore has its content changed.
C8_ExistingFilesUntouched ==
    /\ (/\ r.pc = "done"
        /\ neitherFlag
        /\ \A n \in r.files : isFile(r.pre.entries, n))
       => (r.wrote = {} /\ ssh = r.pre)
    /\ (r.pc \notin {"idle"} /\ r.error # "missing" /\ ~r.opts.overwriteExisting)
       => \A n \in regularFiles(r.pre.entries) :
              isFile(ssh.entries, n) /\ ssh.entries[n] = r.pre.entries[n]

\* the merge copy replaced a file that was in the directory before the call
C8_Collision ==
    /\ r.pc = "done"
    /\ ~r.opts.overwriteExisting
    /\ \E n \in r.wrote : isFile(r.pre.entries, n)

DirectoryLevel == {"missing", "unreadable", "sshdir"}

\* the positions restoreBackup may pass through, in order
nextPositions(pc) ==
    IF pc = "idle" THEN {"snapshot", "extract", "threw"}
    ELSE IF pc = "snapshot" THEN {"extract"}
    ELSE IF pc = "extract" THEN {"resolve", "cleanup"}
    ELSE IF pc = "resolve" THEN {"cleanup"}
    ELSE IF pc = "cleanup" THEN {"done", "threw"}
    ELSE {}

inOrder(phases) ==
    \A i \in 1..(Len(phases) - 1) : phases[i + 1] \in nextPositions(phases[i])

\* C9: with createBackup set (and an SSH directory to snapshot) the snapshot
\* is taken by createBackup before restoreBackup writes any file of the SSH
\* directory and holds the directory as it was; at most one snapshot is
\* taken per call; a failed snapshot is swallowed: the call goes on to the
\* extraction and never ends with the snapshot's error.
C9_SnapshotFirstOnceSwallowed ==
    /\ r.nSnap <= 1
    /\ r.error # "snapshot"
    /\ (r.opts.createBackup /\ r.pre.kind = "dir" /\ r.pc \in {"snapshot"})
           => (ssh = r.pre /\ r.wrote = {} /\ r.snap = "none")
    /\ (r.opts.createBackup /\ r.pre.kind = "dir"
            /\ (r.wrote # {} \/ r.pc \in {"extract", "resolve", "cleanup", "done"}))
           => (r.nSnap = 1 /\ r.snap \in {"created", "failed"})
    /\ r.snap = "created" => r.snapOf = <<r.pre.entries>>
    /\ \A i \in 1..(Len(r.phases) - 1) :
           r.phases[i] = "snapshot" => r.phases[i + 1] = "extract"
    /\ (r.snap = "failed" /\ r.pc = "done") => r.todo = {}

\* a restore that asked for the snapshot is over and wrote files: the
\* snapshot holds the directory as it was before them
C9_Witness ==
    /\ r.pc = "done"
    /\ r.opts.createBackup
    /\ r.snap = "created"
    /\ r.pre.entries # <<>>
    /\ r.wrote # {}
    /\ ssh # r.pre

\* the snapshot failed and the restore went on to write files
C9_FailedSnapshotSwallowed ==
    /\ r.pc = "done"
    /\ r.opts.createBackup
    /\ r.snap = "failed"
    /\ r.wrote # {}

\* C10 (as claimed): restoreBackup passes Idle, [SafetySnapshotting],
\* Extracting, ConflictResolving, CleaningUp, Done in this order, no step
\* twice; it ends with a thrown error only for a directory-level failure
\* (backup file missing, archive unreadable, SSH directory uncreatable); a
\* copy error on one file neither aborts the remaining files nor makes it throw.
C10_RestoreStateMachine ==
    /\ inOrder(r.phases)
    /\ r.pc = "threw" => r.error \in DirectoryLevel
    /\ (r.failed # {} /\ r.pc \in {"cleanup", "done", "threw"})
           => (r.error = "none" /\ r.todo = {})

\* C12 (as claimed): in every archive createBackup made, metadata.files
\* lists exactly the files captured in the archive (an entry whose copy into
\* the staging directory failed is left out) and metadata.fileCount is the
\* length of metadata.files.
C12_ManifestAccuracy ==
    \A n \in DOMAIN store :
        store[n].src # <<>> =>
            /\ store[n].manifest = DOMAIN store[n].entries
            /\ store[n].fileCount = Cardinality(store[n].manifest)

\* C13 (as claimed): createBackup never writes over an archive an earlier
\* call produced: every archive in the backup directory stays as it is.
C13_UniqueArchiveNames ==
    [][\A n \in DOMAIN store : n \in DOMAIN store' /\ store'[n] = store[n]]_vars

-----------------------------------------------------------------------------
(* The temporary directories.  createBackup, restoreBackup and             *)
(* getBackupMetadata each make a directory in os.tmpdir() named after the  *)
(* clock, work in it inside a try block and remove it in the finally       *)
(* block.  The application does not serialize its requests, so several     *)
(* calls may be between their awaits at the same time.                     *)

StagingKinds == {"backup", "restore", "meta"}

\* `ssh-backup-${Date.now()}`, `ssh-restore-${Date.now()}`,
\* `ssh-backup-meta-${Date.now()}`
stagingName(kind, t) ==
    IF kind = "backup" THEN <<"ssh-backup", t>>
    ELSE IF kind = "restore" THEN restoreTempName(t)
    ELSE <<"ssh-backup-meta", t>>

\* fs.mkdir(tempDir, { recursive: true }): a directory that exists is kept
mkdirp(dirs, n) == IF n \in DOMAIN dirs THEN dirs ELSE put(dirs, n, <<>>)

\* the call has made its temporary directory and has not yet removed it
inFlight(c) == calls[c].pc \in {"staged", "finally"}

\* the call up to the mkdir of its temporary directory; createBackup and
\* restoreBackup throw before it when SSH_DIR, or the backup file, is missing
StartCall ==
    /\ \E c \in Callers, kind \in StagingKinds, found \in BOOLEAN :
         /\ calls[c].pc = "idle"
         /\ IF ~found /\ kind # "meta"
            THEN /\ calls' = [calls EXCEPT ![c] = [CallIdle EXCEPT !.pc = "threw",
                                                                  !.kind = kind,
                                                                  !.error = "missing"]]
                 /\ UNCHANGED tmp
            ELSE /\ calls' = [calls EXCEPT ![c] = [CallIdle EXCEPT
                                                      !.pc = "staged",
                                                      !.kind = kind,
                                                      !.tmpName = stagingName(kind, now)]]
                 /\ tmp' = mkdirp(tmp, stagingName(kind, now))
    /\ UNCHANGED <<ssh, store, now, r, nBackups, cfgVars, rt, lb, kl, pm>>

\* the try block: files are written into the temporary directory and tar
\* runs on it; it throws when tar fails, and when the directory is gone
WorkCall ==
    /\ \E c \in Callers, tarFails \in BOOLEAN :
         LET n == calls[c].tmpName
         IN  /\ calls[c].pc = "staged"
             /\ IF n \notin DOMAIN tmp
                THEN /\ calls' = [calls EXCEPT ![c].pc = "finally", ![c].error = "gone"]
                     /\ UNCHANGED tmp
                ELSE /\ calls' = [calls EXCEPT ![c].pc = "finally",
                                               ![c].error = IF tarFails THEN "tar"
                                                            ELSE "none"]
                     /\ tmp' = [tmp EXCEPT ![n] = put(@, <<"a">>, File("d1"))]
    /\ UNCHANGED <<ssh, store, now, r, nBackups, cfgVars, rt, lb, kl, pm>>

\* the finally block: fs.rm(tempDir, { recursive: true, force: true }); the
\* call then returns or rethrows; getBackupMetadata catches and returns null
FinishCall ==
    /\ \E c \in Callers :
         /\ calls[c].pc = "finally"
         /\ tmp' = drop(tmp, calls[c].tmpName)
         /\ calls' = [calls EXCEPT ![c].pc = IF calls[c].error = "none"
                                                 \/ calls[c].kind = "meta"
                                              THEN "returned" ELSE "threw"]
    /\ UNCHANGED <<ssh, store, now, r, nBackups, cfgVars, rt, lb, kl, pm>>

InitStaging ==
    /\ ConfigIdle
    /\ rt = RtIdle
    /\ BackupIdle
    /\ AuxIdle

NextStaging ==
    \/ StartCall
    \/ WorkCall
    \/ FinishCall
    \/ Tick

SpecStaging == InitStaging /\ [][NextStaging]_vars

\* C11 (as claimed): when a call has returned or thrown, the temporary
\* directory it made is gone (unless another call, still in flight, made a
\* directory of that name afterwards); and while a call is in flight its
\* temporary directory exists: no other call's cleanup removes it.
C11_GuaranteedCleanup ==
    \A c \in Callers :
        /\ (calls[c].pc \in {"returned", "threw"} /\ calls[c].tmpName # <<"none">>)
               => \/ calls[c].tmpName \notin DOMAIN tmp
                  \/ \E d \in Callers \ {c} :
                         inFlight(d) /\ calls[d].tmpName = calls[c].tmpName
        /\ inFlight(c) => calls[c].tmpName \in DOMAIN tmp

-----------------------------------------------------------------------------
(* The key listing.  listSSHKeys reads the directory once and calls        *)
(* getKeyInfo for every private key; getKeyInfo reads the configuration    *)
(* file again each time.  The files are awaited one after the other, so    *)
(* the configuration file may change between two of them.                  *)

\* PUBLIC_KEY_EXTENSION
PUBLIC_KEY_EXTENSION == <<".","p","u","b">>

\* SSH_DIR = path.join(os.homedir(), '.ssh')
SSH_DIR == HOME \o <<"/",".","s","s","h">>

\* String.prototype.endsWith
endsWith(s, suffix) ==
    /\ Len(s) >= Len(suffix)
    /\ SubSeq(s, Len(s) - Len(suffix) + 1, Len(s)) = suffix

\* String.prototype.includes
includes(s, sub) ==
    \E k \in 1..(Len(s) - Len(sub) + 1) : SubSeq(s, k, k + Len(sub) - 1) = sub

\* path.basename: what follows the last separator
basename(p) ==
    LET seps == {k \in 1..Len(p) : p[k] = "/"}
    IN  IF seps = {} THEN p
        ELSE SubSeq(p, (CHOOSE k \in seps : \A j \in seps : j <= k) + 1, Len(p))

\* path.join(dir, file)
pathJoin(dir, file) == dir \o <<"/">> \o file

\* PRIVATE_KEY_PATTERNS.some(pattern => pattern.test(file))
matchesPattern(file) ==
    \/ file = <<"i","d","_","d","s","a">>
    \/ endsWith(file, <<"_","r","s","a">>)
    \/ endsWith(file, <<"_","e","d","2","5","5","1","9">>)
    \/ endsWith(file, <<"_","e","c","d","s","a">>)

\* the files listSSHKeys passes over: public keys, known_hosts, config
isSkippedKeyFile(file) ==
    \/ endsWith(file, PUBLIC_KEY_EXTENSION)
    \/ includes(file, <<"k","n","o","w","n","_","h","o","s","t","s">>)
    \/ file = <<"c","o","n","f","i","g">>

\* matchesPattern || isPrivateKeyFile(fullPath): the file has the name of
\* a private key, or its content starts with a private key header
isPrivateKey(f) == matchesPattern(f.name) \/ f.header

\* the test of getKeyInfo on one configuration entry: the normalized
\* IdentityFile has the key's file name, or is the key's path
referencesKey(identityFile, keyName) ==
    LET configKeyPath == toLowerCase(expandHome(identityFile))
        configKeyName == basename(configKeyPath)
    IN  \/ configKeyName = toLowerCase(keyName)
        \/ configKeyPath = toLowerCase(pathJoin(SSH_DIR, keyName))

\* the loop of getKeyInfo over the parsed entries: the aliases pushed
RECURSIVE associatedHosts(_, _)
associatedHosts(configs, keyName) ==
    IF configs = <<>> THEN <<>>
    ELSE LET config == Head(configs)
             rest == associatedHosts(Tail(configs), keyName)
         IN  IF config.identityFile # <<>> /\ config.identityFile[1] # <<>>
                /\ referencesKey(config.identityFile[1], keyName)
             THEN <<config.host>> \o rest
             ELSE rest

\* getKeyInfo(keyName): it throws when the fingerprint cannot be read; a
\* failure to read the configuration is caught and leaves the key without
\* hosts.  seen records the entries this call has read, if it has.
getKeyInfo(f) ==
    LET parsed == parseSSHConfig
        hosts == IF parsed.ok THEN associatedHosts(parsed.configs, f.name) ELSE <<>>
    IN  [ok |-> f.fingerprint,
         key |-> [name |-> f.name,
                  associatedHosts |-> hosts,
                  isMapped |-> hosts # <<>>,
                  seen |-> IF parsed.ok THEN Some(parsed.configs) ELSE None]]

\* a file of the SSH directory: its name, whether its content starts with a
\* private key header, and whether ssh-keygen can read a fingerprint from it
KeyFile(name, header, fingerprint) ==
    [name |-> name, header |-> header, fingerprint |-> fingerprint]

\* the names of the two keys of the listings
IdRsa == <<"i","d","_","r","s","a">>
KeyK == <<"K">>

\* what listFiles(SSH_DIR) returns
KeyDirs ==
    { << KeyFile(<<"c","o","n","f","i","g">>, FALSE, FALSE),
         KeyFile(IdRsa, TRUE, TRUE),
         KeyFile(IdRsa \o PUBLIC_KEY_EXTENSION, FALSE, TRUE),
         KeyFile(KeyK, TRUE, TRUE),
         KeyFile(<<"k","n","o","w","n","_","h","o","s","t","s">>, FALSE, FALSE) >>,
      << KeyFile(KeyK, TRUE, FALSE),
         KeyFile(<<"n","o","t","e","s">>, FALSE, FALSE),
         KeyFile(IdRsa, FALSE, TRUE) >> }

\* the IdentityFile values of the entries: the first key through the home
\* shorthand, the second key by its path, and a file of another directory
IdentityPaths ==
    { <<"~","/",".","s","s","h","/","i","d","_","r","s","a">>,
      <<"/","u","/",".","s","s","h","/","K">>,
      <<"/","o","/","i","d","_","r","s","a">> }

\* an entry as the configuration form submits it
KeyEntry(host, identityFile) ==
    Entry(host, <<"h">>, None, None, identityFile, None, <<>>)

\* the entries of the configuration file before the listing
KeyConfigs ==
    { <<>> } \cup
    { <<KeyEntry(<<"a">>, p)>> : p \in {None} \cup {Some(q) : q \in IdentityPaths} } \cup
    { <<KeyEntry(<<"a">>, Some(p)), KeyEntry(<<"b">>, Some(q))>> :
          p \in IdentityPaths, q \in IdentityPaths }

InitKeys ==
    /\ \/ /\ cfgKind = "file"
          /\ cfgContent \in {serialize(cs) : cs \in KeyConfigs}
       \/ /\ cfgKind \in {"absent", "unreadable"}
          /\ cfgContent = <<>>
    /\ last = NoOutcome
    /\ nOps = 0
    /\ rt = RtIdle
    /\ BackupIdle
    /\ calls = [c \in Callers |-> CallIdle]
    /\ lb = ListIdle
    /\ pm = PermIdle
    /\ kl \in {[KeysIdle EXCEPT !.phase = "ready", !.files = d] : d \in KeyDirs}

\* the configuration changes while the key page is open
Change ==
    /\ kl.phase \in {"ready", "listing"}
    /\ kl.nChanges < MaxChanges
    /\ kl' = [kl EXCEPT !.nChanges = @ + 1]
    /\ UNCHANGED <<nOps, rt, bkVars, calls, lb, pm>>

\* the user saves an entry with another identity file
RetargetHost ==
    /\ Change
    /\ \E host \in Aliases, p \in IdentityPaths :
           updateHostConfig(host, KeyEntry(host, Some(p)))

\* the configuration file becomes unreadable (its access list is changed)
LockConfig ==
    /\ Change
    /\ cfgKind = "file"
    /\ cfgKind' = "unreadable"
    /\ UNCHANGED <<cfgContent, last>>

\* listSSHKeys up to listFiles: it throws when the configuration file
\* cannot be parsed
BeginListing ==
    /\ kl.phase = "ready"
    /\ kl' = IF parseSSHConfig.ok
             THEN [kl EXCEPT !.phase = "listing", !.i = 1]
             ELSE [kl EXCEPT !.phase = "threw"]
    /\ UNCHANGED <<cfgVars, rt, bkVars, calls, lb, pm>>

\* one round of the loop of listSSHKeys over the files; tried records, for
\* every key getKeyInfo was called for, which of its two lookups succeeded
ListStep ==
    /\ kl.phase = "listing"
    /\ kl.i <= Len(kl.files)
    /\ LET f == kl.files[kl.i]
           info == getKeyInfo(f)
           processed == \E k \in 1..Len(kl.keys) : kl.keys[k].name = f.name
           attempt == [name |-> f.name, fingerprint |-> info.ok,
                       association |-> info.key.seen # None]
       IN  kl' = IF isSkippedKeyFile(f.name) \/ ~isPrivateKey(f) \/ processed
                 THEN [kl EXCEPT !.i = @ + 1]
                 ELSE IF info.ok
                 THEN [kl EXCEPT !.i = @ + 1, !.tried = Append(@, attempt),
                                 !.keys = Append(@, info.key)]
                 ELSE [kl EXCEPT !.i = @ + 1, !.tried = Append(@, attempt)]
    /\ UNCHANGED <<cfgVars, rt, bkVars, calls, lb, pm>>

\* listSSHKeys returns the keys
EndListing ==
    /\ kl.phase = "listing"
    /\ kl.i > Len(kl.files)
    /\ kl' = [kl EXCEPT !.phase = "listed"]
    /\ UNCHANGED <<cfgVars, rt, bkVars, calls, lb, pm>>

NextKeys ==
    \/ BeginListing
    \/ ListStep
    \/ EndListing
    \/ RetargetHost
    \/ LockConfig

SpecKeys == InitKeys /\ [][NextKeys]_vars

\* the IdentityFile value, after the home shorthand is expanded and the
\* case is dropped, is the path of the key's private key file
refersTo(identityFile, keyName) ==
    toLowerCase(expandHome(identityFile)) = toLowerCase(pathJoin(SSH_DIR, keyName))

\* the aliases of the entries that refer to the key, in the file's order
RECURSIVE referringAliases(_, _)
referringAliases(configs, keyName) ==
    IF configs = <<>> THEN <<>>
    ELSE LET c == Head(configs)
             rest == referringAliases(Tail(configs), keyName)
         IN  IF c.identityFile # <<>> /\ refersTo(c.identityFile[1], keyName)
             THEN <<c.host>> \o rest
             ELSE rest

\* C14 (as claimed): every key of the listing has exactly the aliases of
\* the entries, read by its getKeyInfo call, whose IdentityFile refers to
\* that key's private key file (an entry that refers to a different file
\* gives no alias), and isMapped says whether there is one.
C14_AssociationCorrectness ==
    \A k \in 1..Len(kl.keys) :
        LET key == kl.keys[k]
        IN  key.seen # None =>
                /\ key.associatedHosts = referringAliases(key.seen[1], key.name)
                /\ key.isMapped <=> (key.associatedHosts # <<>>)

\* the key is in the list listSSHKeys returns
listed(name) == \E k \in 1..Len(kl.keys) : kl.keys[k].name = name

\* C15 (as claimed): listSSHKeys returns whatever fails for single keys,
\* and the list it returns holds exactly the keys for which both the
\* fingerprint and the association with the configuration were obtained.
C15_FailureIsolation ==
    /\ kl.phase # "threw"
    /\ kl.phase = "listed" =>
           \A t \in 1..Len(kl.tried) :
               listed(kl.tried[t].name)
                   <=> (kl.tried[t].fingerprint /\ kl.tried[t].association)

-----------------------------------------------------------------------------
(* The permission checks.  checkAllPermissions inspects the SSH directory, *)
(* the configuration file and every entry of the directory with icacls;    *)
(* fixAllPermissions runs fixPermissions on every record that is not       *)
(* correct.                                                                *)

\* SSH_CONFIG_PATH = path.join(SSH_DIR, 'config')
SSH_CONFIG_PATH == pathJoin(SSH_DIR, <<"c","o","n","f","i","g">>)

\* process.env.USERNAME || 'BUILTIN\\Administrators'
ownerName(username) ==
    IF username # <<>> THEN username
    ELSE <<"B","U","I","L","T","I","N","\\","A","d","m","i","n","i","s","t","r","a","t","o","r","s">>

\* parseIcaclsOutput(output): the summary taken from the second line
parseIcaclsOutput(output, username) ==
    LET lines == splitLines(output)
    IN  IF Len(lines) < 2 THEN <<"U","n","k","n","o","w","n">>
        ELSE LET permLine == trim(lines[2])
             IN  IF includes(permLine, ownerName(username))
                    /\ includes(permLine, <<"(","F",")">>)
                 THEN <<"F","u","l","l"," ","C","o","n","t","r","o","l">>
                 ELSE IF includes(permLine, ownerName(username))
                         /\ includes(permLine, <<"(","M",")">>)
                 THEN <<"M","o","d","i","f","y">>
                 ELSE IF includes(permLine, ownerName(username))
                         /\ includes(permLine, <<"(","R",")">>)
                 THEN <<"R","e","a","d">>
                 ELSE permLine

\* getExpectedPermissions(fileType)
getExpectedPermissions(fileType) ==
    IF fileType \in {"private-key", "config"}
    THEN <<"R","e","a","d"," ","(","C","u","r","r","e","n","t"," ","U","s","e","r"," ","O","n","l","y",")">>
    ELSE IF fileType = "public-key"
    THEN <<"R","e","a","d"," ","(","C","u","r","r","e","n","t"," ","U","s","e","r"," ","+"," ","E","v","e","r","y","o","n","e",")">>
    ELSE <<"F","u","l","l"," ","C","o","n","t","r","o","l"," ","(","C","u","r","r","e","n","t"," ","U","s","e","r"," ","O","n","l","y",")">>

\* checkPermissionsMatch(current, expected)
checkPermissionsMatch(current, expected) ==
    IF includes(expected, <<"C","u","r","r","e","n","t"," ","U","s","e","r"," ","O","n","l","y">>)
    THEN /\ ~includes(toLowerCase(current), <<"e","v","e","r","y","o","n","e">>)
         /\ ~includes(toLowerCase(current), <<"u","s","e","r","s">>)
    ELSE TRUE

\* what `icacls "path"` gives: the command fails, or it prints its output
Failed == [failed |-> TRUE, stdout |-> <<>>]
Printed(stdout) == [failed |-> FALSE, stdout |-> stdout]

\* checkPermissions(filePath, fileType) when icacls gives `result`;
\* inspected records whether the command ran
checkPermissions(filePath, fileType, result, username) ==
    IF result.failed
    THEN [path |-> filePath,
          currentPermissions |-> <<"U","n","k","n","o","w","n">>,
          expectedPermissions |-> getExpectedPermissions(fileType),
          isCorrect |-> FALSE,
          fileType |-> fileType,
          inspected |-> FALSE]
    ELSE [path |-> filePath,
          currentPermissions |-> parseIcaclsOutput(result.stdout, username),
          expectedPermissions |-> getExpectedPermissions(fileType),
          isCorrect |-> checkPermissionsMatch(parseIcaclsOutput(result.stdout, username),
                                              getExpectedPermissions(fileType)),
          fileType |-> fileType,
          inspected |-> TRUE]

\* the entries of the directory the loop of checkAllPermissions passes over
isSkippedEntry(file) ==
    \/ file = <<".">>
    \/ file = <<".",".">>
    \/ includes(file, <<"k","n","o","w","n","_","h","o","s","t","s">>)

\* a variant of fileTypeOf that knows no configuration file
fileTypeOfMutantNoConfig(file) ==
    IF endsWith(file, PUBLIC_KEY_EXTENSION) THEN "public-key" ELSE "private-key"

\* the file type checkAllPermissions gives an entry of the directory
fileTypeOf(file) ==
    IF endsWith(file, PUBLIC_KEY_EXTENSION) THEN "public-key"
    ELSE IF file = <<"c","o","n","f","i","g">> THEN "config"
    ELSE "private-key"

\* a path to inspect and the file type it is inspected as
Target(path, fileType) == [path |-> path, fileType |-> fileType]

\* the targets of the loop over listFiles(SSH_DIR), in the listing's order
RECURSIVE entryTargets(_)
entryTargets(files) ==
    IF files = <<>> THEN <<>>
    ELSE IF isSkippedEntry(Head(files).name) THEN entryTargets(Tail(files))
    ELSE <<Target(pathJoin(SSH_DIR, Head(files).name), fileTypeOf(Head(files).name))>>
             \o entryTargets(Tail(files))

\* fileExists(SSH_CONFIG_PATH): an entry named config that is a regular file
configExists(dir) ==
    \E k \in 1..Len(dir.files) :
        dir.files[k].name = <<"c","o","n","f","i","g">> /\ dir.files[k].isFile

\* the calls of checkPermissions that checkAllPermissions makes, in order:
\* the directory, the configuration file, the entries of the directory
targetsOf(dir) ==
    IF ~dir.exists THEN <<>>
    ELSE <<Target(SSH_DIR, "directory")>>
         \o (IF configExists(dir) THEN <<Target(SSH_CONFIG_PATH, "config")>> ELSE <<>>)
         \o (IF dir.readable THEN entryTargets(dir.files) ELSE <<>>)

\* the icacls command fixPermissions builds for the file type
icaclsCommand(filePath, fileType, username) ==
    [path |-> filePath,
     inheritance |-> "r",
     grants |-> IF fileType = "directory" THEN << <<username, "(OI)(CI)F">> >>
                ELSE IF fileType = "public-key"
                THEN << <<username, "R">>, <<<<"E","v","e","r","y","o","n","e">>, "R">> >>
                ELSE << <<username, "R">> >>]

\* what the icacls command of fixPermissions gives: its exit code and what
\* it wrote on the error stream
Tool(exit, stderr) == [exit |-> exit, stderr |-> stderr]

\* a variant of fixPermissions that does not look for the user name
fixPermissionsMutantNoUserCheck(filePath, fileType, username, tool) ==
    [threw |-> tool.exit # 0,
     commands |-> <<icaclsCommand(filePath, fileType, username)>>,
     warned |-> FALSE]

\* fixPermissions(filePath, fileType) when the command, if issued, gives
\* `tool`: whether it throws, the commands it issued, whether it warned
fixPermissions(filePath, fileType, username, tool) ==
    IF username = <<>>
    THEN [threw |-> TRUE, commands |-> <<>>, warned |-> FALSE]
    ELSE IF tool.exit # 0
    THEN [threw |-> TRUE,
          commands |-> <<icaclsCommand(filePath, fileType, username)>>,
          warned |-> FALSE]
    ELSE [threw |-> FALSE,
          commands |-> <<icaclsCommand(filePath, fileType, username)>>,
          warned |-> tool.stderr # <<>>
                     /\ ~includes(tool.stderr, <<"p","r","o","c","e","s","s","e","d">>)]

\* a variant of afterAttempt that leaves the loop at the first failure
afterAttemptMutantAbort(j, n, threw) == IF threw THEN n + 1 ELSE j + 1

\* the loop of fixAllPermissions after one attempt: the catch inside the
\* loop keeps it going, whatever the attempt gave
afterAttempt(j, n, threw) == j + 1

\* an entry of the SSH directory
DirEntry(name, regular) == [name |-> name, isFile |-> regular]

\* the SSH directories of the permission requests
PermDirs ==
    { [exists |-> FALSE, readable |-> FALSE, files |-> <<>>],
      [exists |-> TRUE, readable |-> FALSE, files |-> <<>>],
      [exists |-> TRUE, readable |-> TRUE,
       files |-> << DirEntry(<<"c","o","n","f","i","g">>, TRUE),
                    DirEntry(<<"k","n","o","w","n","_","h","o","s","t","s">>, TRUE) >>],
      [exists |-> TRUE, readable |-> TRUE,
       files |-> << DirEntry(<<"k",".","p","u","b">>, TRUE),
                    DirEntry(<<"k">>, TRUE),
                    DirEntry(<<"k","n","o","w","n","_","h","o","s","t","s">>, TRUE),
                    DirEntry(<<"c","o","n","f","i","g">>, FALSE) >>] }

\* the values of process.env.USERNAME: not set, or the user's name
UserNames == { <<>>, <<"m","e">> }

\* what `icacls "path"` can give: a failure, a grant to the user alone, a
\* grant to Everyone, a grant to the Users group, a single line
IcaclsResults ==
    { Failed,
      Printed(<<"p","\n"," ","m","e",":","(","F",")">>),
      Printed(<<"p","\n"," ","E","v","e","r","y","o","n","e",":","(","R",")">>),
      Printed(<<"p","\n"," ","B","U","I","L","T","I","N","\\","U","s","e","r","s",":","(","M",")">>),
      Printed(<<"p">>) }

\* what the icacls command of fixPermissions can give: success, success
\* with the tool's own report on the error stream, an error message with
\* exit code 0, an error message with a non-zero exit code
ToolResults ==
    { Tool(0, <<>>),
      Tool(0, <<"p","r","o","c","e","s","s","e","d"," ","1">>),
      Tool(0, <<"d","e","n","i","e","d">>),
      Tool(1, <<"d","e","n","i","e","d">>) }

InitPerm ==
    /\ ConfigIdle
    /\ rt = RtIdle
    /\ BackupIdle
    /\ calls = [c \in Callers |-> CallIdle]
    /\ lb = ListIdle
    /\ kl = KeysIdle
    /\ pm \in {[PermIdle EXCEPT !.phase = "ready", !.username = u, !.dir = d] :
                   u \in UserNames, d \in PermDirs}

\* fixAllPermissions is called; it calls checkAllPermissions
BeginCheck ==
    /\ pm.phase = "ready"
    /\ pm' = [pm EXCEPT !.phase = "checking", !.i = 1]
    /\ UNCHANGED <<cfgVars, rt, bkVars, calls, lb, kl>>

\* one call of checkPermissions by checkAllPermissions
CheckStep ==
    /\ pm.phase = "checking"
    /\ pm.i <= Len(targetsOf(pm.dir))
    /\ \E result \in IcaclsResults :
         LET t == targetsOf(pm.dir)[pm.i]
         IN  pm' = [pm EXCEPT !.i = @ + 1,
                              !.statuses = Append(@, checkPermissions(t.path, t.fileType,
                                                                      result, pm.username))]
    /\ UNCHANGED <<cfgVars, rt, bkVars, calls, lb, kl>>

\* checkAllPermissions returns its records, or throws when listFiles did
EndCheck ==
    /\ pm.phase = "checking"
    /\ pm.i > Len(targetsOf(pm.dir))
    /\ pm' = IF pm.dir.exists /\ ~pm.dir.readable
             THEN [pm EXCEPT !.phase = "threw"]
             ELSE [pm EXCEPT !.phase = "fixing", !.j = 1]
    /\ UNCHANGED <<cfgVars, rt, bkVars, calls, lb, kl>>

\* one round of the loop of fixAllPermissions over the records
FixStep ==
    /\ pm.phase = "fixing"
    /\ pm.j <= Len(pm.statuses)
    /\ \E tool \in ToolResults :
         LET status == pm.statuses[pm.j]
             fix == fixPermissions(status.path, status.fileType, pm.username, tool)
             attempt == [index |-> pm.j, tool |-> tool, fix |-> fix]
             next == afterAttempt(pm.j, Len(pm.statuses), fix.threw)
         IN  pm' = IF status.isCorrect
                   THEN [pm EXCEPT !.j = @ + 1]
                   ELSE IF fix.threw
                   THEN [pm EXCEPT !.j = next,
                                   !.failed = @ + 1,
                                   !.errors = Append(@, [path |-> status.path,
                                                         error |-> "fix"]),
                                   !.attempts = Append(@, attempt)]
                   ELSE [pm EXCEPT !.j = next,
                                   !.fixed = @ + 1,
                                   !.attempts = Append(@, attempt)]
    /\ UNCHANGED <<cfgVars, rt, bkVars, calls, lb, kl>>

\* fixAllPermissions returns { fixed, failed, errors }
EndFix ==
    /\ pm.phase = "fixing"
    /\ pm.j > Len(pm.statuses)
    /\ pm' = [pm EXCEPT !.phase = "done"]
    /\ UNCHANGED <<cfgVars, rt, bkVars, calls, lb, kl>>

NextPerm ==
    \/ BeginCheck
    \/ CheckStep
    \/ EndCheck
    \/ FixStep
    \/ EndFix

SpecPerm == InitPerm /\ [][NextPerm]_vars

-----------------------------------------------------------------------------
(* Properties of the permission requests *)

\* the records below position n that are not correct
nonConforming(n) == {k \in 1..(n - 1) : ~pm.statuses[k].isCorrect}

\* the attempts of fixAllPermissions that failed
failedAttempts == {k \in 1..Len(pm.attempts) : pm.attempts[k].fix.threw}

checked == IF pm.phase \in {"fixing", "done"} THEN pm.statuses ELSE <<>>

\* the records for one path
recordsOf(path) == {k \in 1..Len(checked) : checked[k].path = path}

broaderGrant(summary) ==
    \/ includes(toLowerCase(summary), <<"e","v","e","r","y","o","n","e">>)
    \/ includes(toLowerCase(summary), <<"u","s","e","r","s">>)

\* C18 (as claimed): a record of a directory, a private key or the
\* configuration file is correct exactly when its summary names no broader
\* principal; a record of a public key is always correct.
C18_CheckRule ==
    \A k \in 1..Len(pm.statuses) :
        LET s == pm.statuses[k]
        IN  IF s.fileType = "public-key" THEN s.isCorrect
            ELSE s.isCorrect <=> ~broaderGrant(s.currentPermissions)

\* C19: without a user name fixPermissions fails and issues no command,
\* and the record is not tried again; with one, it fails when the command
\* ends with an error, and otherwise (also when the command only wrote a
\* warning on its error stream) it returns after exactly one command, the
\* one for the record's file type.
C19_FixContract ==
    \A k \in 1..Len(pm.attempts) :
        LET a == pm.attempts[k]
            s == pm.statuses[a.index]
        IN  /\ \A l \in 1..Len(pm.attempts) : pm.attempts[l].index = a.index => l = k
            /\ IF pm.username = <<>>
               THEN a.fix.threw /\ a.fix.commands = <<>>
               ELSE IF a.tool.exit # 0 THEN a.fix.threw
               ELSE /\ ~a.fix.threw
                    /\ a.fix.commands = <<icaclsCommand(s.path, s.fileType, pm.username)>>

\* with a user name, one fix has failed on the command's error and another
\* has returned normally although the command wrote a warning
C19_Witness ==
    /\ pm.username # <<>>
    /\ \E k, l \in 1..Len(pm.attempts) :
           /\ pm.attempts[k].tool.exit # 0 /\ pm.attempts[k].fix.threw
           /\ pm.attempts[l].fix.warned /\ ~pm.attempts[l].fix.threw

-----------------------------------------------------------------------------
(* The backup listing.  listBackups reads the backup directory and asks    *)
(* getBackupMetadata for the metadata of every backup file in it.          *)

\* file.startsWith(BACKUP_FILE_PREFIX) && file.endsWith(BACKUP_FILE_EXTENSION)
isBackupName(n) == Len(n) = 2 /\ n[1] = "ssh_backup"

\* the metadata JSON.parse reads from the metadata file of an archive
metadataOf(archive) ==
    [createdAt |-> archive.createdAt, username |-> "user",
     files |-> archive.manifest, fileCount |-> archive.fileCount]

\* the fallback metadata of listBackups, from the file's birth time
fallbackMetadata(archive) ==
    [createdAt |-> archive.createdAt, username |-> "Unknown",
     files |-> {}, fileCount |-> 0]

\* a variant of getBackupMetadata that lets the errors of tar through
getBackupMetadataMutantThrows(dir, path) ==
    IF path \notin DOMAIN dir \/ ~dir[path].readable \/ dir[path].meta # "valid"
    THEN [result |-> "threw", value |-> <<>>]
    ELSE [result |-> "value", value |-> <<metadataOf(dir[path])>>]

\* getBackupMetadata(backupPath): tar extracts the metadata file alone and
\* fails when the archive is missing, unreadable or has no such member;
\* JSON.parse fails on a malformed file; the outer catch turns every
\* failure into null.  The temporary directory is made and removed within
\* the call.
getBackupMetadata(dir, path) ==
    IF path \notin DOMAIN dir \/ ~dir[path].readable \/ dir[path].meta # "valid"
    THEN [result |-> "null", value |-> <<>>]
    ELSE [result |-> "value", value |-> <<metadataOf(dir[path])>>]

\* the loop body of listBackups for one backup file: the entry pushed, or
\* nothing when the try block threw
backupInfo(dir, n) ==
    LET m == getBackupMetadata(dir, n)
    IN  IF m.result = "threw" THEN <<>>
        ELSE <<[path |-> n,
                metadata |-> IF m.result = "null" THEN fallbackMetadata(dir[n])
                             ELSE m.value[1]]>>

\* the backup files of the directory in the order fs.readdir gives them
backupFiles(dir) ==
    LET names == {n \in DOMAIN dir : isBackupName(n)}
        stamps == {n[2] : n \in names}
    IN  [k \in 1..Cardinality(names) |-> <<"ssh_backup", nth(stamps, k)>>]

\* the entries pushed by the loop of listBackups
RECURSIVE backupInfos(_, _)
backupInfos(dir, files) ==
    IF files = <<>> THEN <<>>
    ELSE backupInfo(dir, Head(files)) \o backupInfos(dir, Tail(files))

\* a variant of sortNewestFirst that leaves the entries as they were pushed
sortNewestFirstMutantUnsorted(backups) == backups

\* backups.sort(...): newest first; entries of the same date keep their order
sortNewestFirst(backups) ==
    LET at(k) == backups[k].metadata.createdAt
        rank(k) == Cardinality({j \in 1..Len(backups) :
                                    at(j) > at(k) \/ (at(j) = at(k) /\ j < k)}) + 1
    IN  [p \in 1..Len(backups) |-> backups[CHOOSE k \in 1..Len(backups) : rank(k) = p]]

\* listBackups(directory)
listBackups(dir) == sortNewestFirst(backupInfos(dir, backupFiles(dir)))

\* an archive that was put into the backup directory at time t
Old(archive, t) == [archive EXCEPT !.createdAt = t]

\* the backup directories of the listings: empty; an archive without
\* metadata; one with, one without; an unreadable one and a malformed one
ListStores ==
    { <<>>,
      put(<<>>, backupFileName(-1),
          Old(Foreign(TRUE, put(put(<<>>, <<"a">>, File("d1")), <<"b">>, File("d1")),
                      "none"), -1)),
      put(put(<<>>, backupFileName(-2),
              Old(Foreign(TRUE, put(<<>>, <<"a">>, File("d1")), "valid"), -2)),
          backupFileName(-1),
          Old(Foreign(TRUE, put(<<>>, <<"b">>, File("d2")), "none"), -1)),
      put(put(<<>>, backupFileName(-2), Old(Foreign(FALSE, <<>>, "none"), -2)),
          <<"ext">>,
          Foreign(TRUE, put(<<>>, <<"a">>, File("d1")), "malformed")) }

\* the directories listBackups is asked to list
BackupDirectories == { <<"backups">>, <<"nowhere">> }

\* the SSH directories of the listings
ListDirs == { NoDir, DirOf(put(<<>>, <<"a">>, File("d2"))) }

InitList ==
    /\ ConfigIdle
    /\ rt = RtIdle
    /\ ssh \in ListDirs
    /\ store \in ListStores
    /\ tmp = <<>>
    /\ now = 0
    /\ r = RestoreIdle
    /\ nBackups = 0
    /\ AuxIdle

\* a getBackupMetadata request; dir records the directory as it was
GetMetadata ==
    /\ \E path \in DOMAIN store \cup {<<"missing">>} :
         lb' = [op |-> "metadata", path |-> path, dir |-> store,
                result |-> getBackupMetadata(store, path).result,
                value |-> getBackupMetadata(store, path).value]
    /\ UNCHANGED <<cfgVars, rt, bkVars, calls, kl, pm>>

\* a listBackups request, for the backup directory or for a directory that
\* does not exist: directoryExists is false and [] is returned
ListBackups ==
    /\ \E directory \in BackupDirectories :
         lb' = IF directory = <<"backups">>
               THEN [op |-> "list", path |-> directory, dir |-> store,
                     result |-> "ok", value |-> listBackups(store)]
               ELSE [op |-> "list", path |-> directory, dir |-> <<>>,
                     result |-> "ok", value |-> <<>>]
    /\ UNCHANGED <<cfgVars, rt, bkVars, calls, kl, pm>>

NextList ==
    \/ GetMetadata
    \/ ListBackups
    \/ CreateBackup
    \/ Tick
    \/ BeginRestore
    \/ SafetySnapshot
    \/ Extract
    \/ ResolveFile
    \/ EndResolve
    \/ Cleanup

SpecList == InitList /\ [][NextList]_vars

\* the archive can be unpacked and holds no metadata file
noMetadata(archive) == archive.readable /\ archive.meta = "none"

\* C20: for an archive without a metadata file, getBackupMetadata returns
\* null; listBackups lists it, with the fallback metadata made from the
\* file's birth time; and restoreBackup does not fail on the metadata and,
\* when it returns, has gone through every file of the extracted directory.
C20_MissingMetadataTolerated ==
    /\ (lb.op = "metadata" /\ lb.path \in DOMAIN lb.dir /\ noMetadata(lb.dir[lb.path]))
           => lb.result = "null"
    /\ lb.op = "list" =>
           \A n \in DOMAIN lb.dir :
               (isBackupName(n) /\ noMetadata(lb.dir[n])) =>
                   \E k \in 1..Len(lb.value) :
                       /\ lb.value[k].path = n
                       /\ lb.value[k].metadata
                              = [createdAt |-> lb.dir[n].createdAt,
                                 username |-> "Unknown", files |-> {}, fileCount |-> 0]
    /\ (r.path \in DOMAIN store /\ noMetadata(store[r.path])) =>
           /\ r.error # "metadata"
           /\ r.pc = "done" =>
                  /\ r.files = DOMAIN store[r.path].entries
                  /\ r.todo = {}
                  /\ \A f \in r.files :
                         \/ f \in r.wrote \cup r.skipped \cup r.failed
                         \/ \E t \in 0..now : restoredName(f, t) \in r.wrote

\* an archive without metadata has been listed, and restored with both of
\* its files written
C20_Witness ==
    /\ lb.op = "list"
    /\ \E k \in 1..Len(lb.value) :
           /\ noMetadata(lb.dir[lb.value[k].path])
           /\ lb.value[k].metadata.username = "Unknown"
    /\ r.pc = "done"
    /\ r.path \in DOMAIN store
    /\ noMetadata(store[r.path])
    /\ Cardinality(r.wrote) = 2

-----------------------------------------------------------------------------
(* Further properties of the permission requests and of the key listing *)

\* C29 (as claimed): no path has two records in what checkAllPermissions
\* returns, and fixAllPermissions attempts no path twice.
C29_OneRecordPerPath ==
    /\ \A k, l \in 1..Len(checked) : checked[k].path = checked[l].path => k = l
    /\ \A k, l \in 1..Len(pm.attempts) :
           pm.statuses[pm.attempts[k].index].path = pm.statuses[pm.attempts[l].index].path
               => k = l

\* C26 (as claimed): the keys of one listing are all computed from one
\* reading of the configuration file: any two keys of the list have seen
\* the same entries.
C26_OneSnapshotPerListing ==
    \A k, l \in 1..Len(kl.keys) :
        (kl.keys[k].seen # None /\ kl.keys[l].seen # None)
            => kl.keys[k].seen = kl.keys[l].seen

-----------------------------------------------------------------------------
(* Further properties of the backup listing *)

-----------------------------------------------------------------------------
(* Further properties of the configuration file *)

\* the line starts with the text
startsWith(line, text) == Len(line) >= Len(text) /\ SubSeq(line, 1, Len(text)) = text

isHostLine(line) == startsWith(line, <<"H","o","s","t"," ">>)
isIndented(line) == startsWith(line, <<" "," "," "," ">>) /\ Len(line) > 4 /\ line[5] # " "

\* the text is the two header lines, then for every entry a `Host` line,
\* one or more directive lines indented by four spaces and a blank line
wellFormed(text, entries) ==
    LET lines == splitLines(text)
        n == Len(lines)
        hosts == {i \in 4..n : isHostLine(lines[i])}
    IN  /\ n >= 4
        /\ lines[1] = <<"#"," ","S","S","H"," ","C","o","n","f","i","g"," ","F","i","l","e">>
        /\ lines[2] = <<"#"," ","G","e","n","e","r","a","t","e","d"," ","b","y"," ","S","S","H"," ",
                        "K","e","y"," ","M","a","n","a","g","e","r">>
        /\ lines[3] = <<>>
        /\ lines[n] = <<>>
        /\ \A i \in 4..n :
               \/ /\ isHostLine(lines[i])
                  /\ lines[i - 1] = <<>>
                  /\ i < n /\ isIndented(lines[i + 1])
               \/ /\ isIndented(lines[i])
                  /\ isHostLine(lines[i - 1]) \/ isIndented(lines[i - 1])
                  /\ i < n /\ (isIndented(lines[i + 1]) \/ lines[i + 1] = <<>>)
               \/ /\ lines[i] = <<>>
                  /\ i = n \/ (i + 1 = n) \/ isHostLine(lines[i + 1])
                  /\ i = 4 \/ lines[i - 1] # <<>> \/ i = n
        /\ Cardinality(hosts) = Len(entries)
        /\ \A k \in 1..Len(entries) :
               lines[nth(hosts, k)] = <<"H","o","s","t"," ">> \o entries[k].host

-----------------------------------------------------------------------------
(* The mutations on configuration files that hold several blocks *)

\* configuration files found on disk: an entry with a port of 0; a
\* defaults block `Host *` before an entry with an unknown directive; two
\* entries after a comment; no blocks at all
FrameFiles ==
    { <<"H","o","s","t"," ","b","\n"," "," ","H","o","s","t","N","a","m","e"," ","h","\n",
        " "," ","P","o","r","t"," ","0","\n">>,
      <<"H","o","s","t"," ","*","\n"," "," ","U","s","e","r"," ","u","\n","\n",
        "H","o","s","t"," ","b","\n"," "," ","H","o","s","t","N","a","m","e"," ","h","\n",
        " "," ","F","o","o"," ","x","\n">>,
      <<"#"," ","c","\n","H","o","s","t"," ","a","\n"," ","H","o","s","t","N","a","m","e"," ","g","\n",
        "H","o","s","t"," ","b","\n"," ","H","o","s","t","N","a","m","e"," ","h","\n",
        " ","U","s","e","r"," ","u","\n">>,
      Header }

\* the entries the configuration form submits: alias and hostname filled in
FrameConfigs == {c \in CallerConfigs : c.host # <<>> /\ c.hostname # <<>>}

InitFrame ==
    /\ \/ cfgKind = "file" /\ cfgContent \in FrameFiles
       \/ cfgKind = "absent" /\ cfgContent = <<>>
    /\ last = NoOutcome
    /\ nOps = 0
    /\ rt = RtIdle
    /\ BackupIdle
    /\ AuxIdle

FrameAdd ==
    /\ Request
    /\ \E config \in FrameConfigs : addHostConfig(config)

FrameUpdate ==
    /\ Request
    /\ \E host \in Aliases, config \in FrameConfigs : updateHostConfig(host, config)

FrameDelete ==
    /\ Request
    /\ \E host \in Aliases : deleteHostConfig(host)

NextFrame ==
    \/ FrameAdd
    \/ FrameUpdate
    \/ FrameDelete

SpecFrame == InitFrame /\ [][NextFrame]_vars

\* the step is a mutation that succeeded
mutated == nOps' = nOps + 1 /\ last'.result = "ok" /\ last'.op \in {"add", "update", "delete"}

\* what parseSSHConfig returns after the step
parsedAfter == IF cfgKind' = "file" THEN parseText(cfgContent') ELSE <<>>

\* the entries whose alias is not the given one, in their order
RECURSIVE others(_, _)
others(configs, host) ==
    IF configs = <<>> THEN <<>>
    ELSE IF configs[1].host = host THEN others(Tail(configs), host)
    ELSE <<configs[1]>> \o others(Tail(configs), host)

\* C25 (as claimed): a successful add keeps the parsed entries as they
\* were and puts the new entry after them; a successful update changes the
\* parsed entry at the position of the alias and no other; a successful
\* delete keeps the parsed entries of the other aliases, in their order.
C25_ParsedFrame ==
    [][mutated =>
        LET before == parseSSHConfig.configs
            after == parsedAfter
            X == last'.host
        IN  IF last'.op = "add"
            THEN /\ Len(after) = Len(before) + 1
                 /\ SubSeq(after, 1, Len(before)) = before
                 /\ after[Len(after)].host = X
            ELSE IF last'.op = "update"
            THEN /\ Len(after) = Len(before)
                 /\ \A i \in 1..Len(before) :
                        i # findIndex(before, X) => after[i] = before[i]
            ELSE after = others(before, X)]_vars

\* C27 (as claimed): a successful mutation of a file whose parsed entries
\* have pairwise distinct aliases leaves a file whose parsed entries have
\* pairwise distinct aliases.
C27_AliasesStayUnique ==
    [][(mutated /\ uniqueAliases(parseSSHConfig.configs)) => uniqueAliases(parsedAfter)]_vars

\* the aliases of the Host lines of a text
hostAliases(content) ==
    {hostMatch(textLines(content)[k])[1] : k \in hostLines(content)}

\* C28 (as claimed): after a successful mutation on an alias, every Host
\* block of another alias that was in the file is still in the file.
C28_OtherBlocksKept ==
    [][mutated =>
        \A alias \in hostAliases(cfgContent) \ {last'.host} :
            alias \in hostAliases(cfgContent')]_vars

-----------------------------------------------------------------------------
(* Calls on the configuration file that are in flight at the same time.    *)
(* addHostConfig awaits parseSSHConfig and then writeSSHConfig; the write  *)
(* is fs.writeFile, which opens the file with flag 'w' (the file is empty  *)
(* from then on) and writes the text from the start of the file in a       *)
(* later step.  Calls of other callers run between these steps.            *)

\* no call on the configuration file is in flight
ConcIdle ==
    [pc |-> "idle", kind |-> "none", config |-> <<>>, read |-> <<>>, text |-> <<>>,
     seen |-> [kind |-> "none", content |-> <<>>], value |-> <<>>, error |-> "none",
     before |-> {}]

\* the entries the concurrent callers add
ConcConfigs ==
    { Entry(<<"a">>, <<"g">>, None, None, None, None, <<>>),
      Entry(<<"c">>, <<"h">>, None, Some(<<"u">>), None, None, <<>>) }

\* the file before the calls: one entry, written by an earlier mutation
ConcInitial == serialize(<<Entry(<<"b">>, <<"h">>, Some(Num(22)), None, None, None, <<>>)>>)

InitConc ==
    /\ \/ cfgKind = "file" /\ cfgContent = ConcInitial
       \/ cfgKind = "absent" /\ cfgContent = <<>>
    /\ last = NoOutcome
    /\ nOps = 0
    /\ rt = RtIdle
    /\ BackupIdle
    /\ calls = [c \in Callers |-> ConcIdle]
    /\ lb = ListIdle
    /\ kl = KeysIdle
    /\ pm = PermIdle

\* a step of a call
ConcStep == UNCHANGED <<last, nOps, rt, bkVars, lb, kl, pm>>

\* the calls that have opened the file for writing
opened == {w \in Callers : calls[w].pc \in {"opened", "returned"} /\ calls[w].kind = "add"}

\* a variant of pushed that takes the entries from the file as it is now
pushedMutantFresh(existingConfigs, config) == Append(parseSSHConfig.configs, config)

\* existingConfigs.push(config)
pushed(existingConfigs, config) == Append(existingConfigs, config)

\* a write of `text` at the start of a file that holds `content`
writeAtStart(content, text) ==
    text \o SubSeq(content, Len(text) + 1, Len(content))

\* a caller calls parseSSHConfig or addHostConfig(config)
ConcCall ==
    /\ ConcStep
    /\ \E c \in Callers :
         /\ calls[c].pc = "idle"
         /\ \/ calls' = [calls EXCEPT ![c] = [ConcIdle EXCEPT !.pc = "called",
                                                              !.kind = "parse"]]
            \/ \E config \in ConcConfigs :
                 calls' = [calls EXCEPT ![c] = [ConcIdle EXCEPT !.pc = "called",
                                                                !.kind = "add",
                                                                !.config = config]]
    /\ UNCHANGED <<cfgKind, cfgContent>>

\* parseSSHConfig of a call reads the file; addHostConfig goes on to the
\* check for the alias
ConcRead ==
    /\ ConcStep
    /\ \E c \in Callers :
         LET configs == parseSSHConfig.configs
             rec == [calls[c] EXCEPT !.read = configs, !.before = opened,
                                     !.seen = [kind |-> cfgKind, content |-> cfgContent]]
         IN  /\ calls[c].pc = "called"
             /\ calls' = [calls EXCEPT ![c] =
                    IF calls[c].kind = "parse"
                    THEN [rec EXCEPT !.pc = "returned", !.value = configs]
                    ELSE IF hostExists(configs, calls[c].config.host)
                    THEN [rec EXCEPT !.pc = "threw", !.error = "exists"]
                    ELSE [rec EXCEPT !.pc = "decided"]]
    /\ UNCHANGED <<cfgKind, cfgContent>>

\* writeSSHConfig of an addHostConfig builds the text and fs.writeFile
\* opens the file, which empties it
ConcOpen ==
    /\ ConcStep
    /\ \E c \in Callers :
         /\ calls[c].pc = "decided"
         /\ calls' = [calls EXCEPT ![c].pc = "opened",
                                   ![c].text = serialize(pushed(calls[c].read,
                                                                calls[c].config))]
    /\ cfgKind' = "file"
    /\ cfgContent' = <<>>

\* fs.writeFile writes the text and addHostConfig returns
ConcWrite ==
    /\ ConcStep
    /\ \E c \in Callers :
         /\ calls[c].pc = "opened"
         /\ calls' = [calls EXCEPT ![c].pc = "returned"]
         /\ cfgContent' = writeAtStart(cfgContent, calls[c].text)
    /\ UNCHANGED cfgKind

NextConc ==
    \/ ConcCall
    \/ ConcRead
    \/ ConcOpen
    \/ ConcWrite

SpecConc == InitConc /\ [][NextConc]_vars

\* C22 (as claimed): what a parseSSHConfig reads is the file as it was
\* before the calls or the complete text of some writeSSHConfig, never an
\* empty or partly written file.
C22_ReadersSeeCompleteFiles ==
    \A c \in Callers :
        (calls[c].kind = "parse" /\ calls[c].pc = "returned" /\ calls[c].seen.kind = "file")
            => \/ calls[c].seen.content = ConcInitial
               \/ \E w \in Callers :
                      w \in opened /\ calls[w].text = calls[c].seen.content

\* the aliases of the blocks parseSSHConfig finds in the file now
aliasesNow == {parseSSHConfig.configs[i].host : i \in 1..Len(parseSSHConfig.configs)}

\* two addHostConfig calls for distinct aliases that were not in the file,
\* each of which read the file before either opened it for writing, have
\* both returned, and no other call has written
lostUpdateRace(c, d) ==
    /\ c # d
    /\ calls[c].kind = "add" /\ calls[d].kind = "add"
    /\ calls[c].pc = "returned" /\ calls[d].pc = "returned"
    /\ calls[c].config.host # calls[d].config.host
    /\ d \notin calls[c].before /\ c \notin calls[d].before
    /\ opened = {c, d}

\* C24: when two addHostConfig calls for distinct absent aliases both read
\* before either writes, both return without an error and the file
\* then holds one of the two aliases and not the other.
C24_LostUpdate ==
    \A c, d \in Callers :
        lostUpdateRace(c, d)
            => /\ calls[c].error = "none" /\ calls[d].error = "none"
               /\ ~({calls[c].config.host, calls[d].config.host} \subseteq aliasesNow)
               /\ {calls[c].config.host, calls[d].config.host} \cap aliasesNow # {}

C24_Witness ==
    \E c, d \in Callers :
        /\ lostUpdateRace(c, d)
        /\ cfgContent = calls[d].text
        /\ calls[d].config.host \in aliasesNow
        /\ calls[c].config.host \notin aliasesNow

-----------------------------------------------------------------------------
(* importSSHKey: a key file from elsewhere is copied into SSH_DIR, with    *)
(* its `.pub` companion when there is one                                  *)

\* the files outside SSH_DIR an import can name, by path: the key /d/k
\* with its companion, the key /e/k without one, the key /d/j whose
\* companion path is a directory, the key /e/j with its companion; /d/x
\* does not exist
SourceFiles ==
    put(put(put(put(put(put(put(<<>>,
        <<"/","d","/","k">>, File("s1")),
        <<"/","d","/","k",".","p","u","b">>, File("s2")),
        <<"/","e","/","k">>, File("s3")),
        <<"/","d","/","j">>, File("s4")),
        <<"/","d","/","j",".","p","u","b">>, SubDir),
        <<"/","e","/","j">>, File("s5")),
        <<"/","e","/","j",".","p","u","b">>, File("s6"))

SourcePaths ==
    { <<"/","d","/","k">>, <<"/","e","/","k">>, <<"/","d","/","j">>, <<"/","e","/","j">>,
      <<"/","d","/","x">> }

\* SSH_DIR before the imports: missing; empty; holding the key k, without
\* and with its public key; holding a public key k.pub whose private key
\* is gone, next to the key j; holding directories named k.pub and j
ImportDirs ==
    { NoDir,
      DirOf(<<>>),
      DirOf(put(<<>>, <<"k">>, File("o1"))),
      DirOf(put(put(<<>>, <<"k">>, File("o1")), <<"k",".","p","u","b">>, File("o2"))),
      DirOf(put(put(<<>>, <<"k",".","p","u","b">>, File("o2")), <<"j">>, File("o3"))),
      DirOf(put(put(<<>>, <<"k",".","p","u","b">>, SubDir), <<"j">>, SubDir)) }

\* fs.copyFile(sourcePath, path.join(SSH_DIR, name)): it fails when there
\* is nothing at the source path and when SSH_DIR is missing, and else as
\* copyFile does
copyKeyFile(dir, sourcePath, name) ==
    IF sourcePath \notin DOMAIN SourceFiles \/ dir.kind # "dir"
    THEN [ok |-> FALSE, dir |-> dir]
    ELSE LET res == copyFile(dir.entries, SourceFiles[sourcePath], name)
         IN  [ok |-> res.ok, dir |-> DirOf(res.dir)]

\* importSSHKey(sourcePath); fingerprint tells whether ssh-keygen can read
\* the copied key
importSSHKey(sourcePath, fingerprint) ==
    LET fileName == basename(sourcePath)
        publicName == fileName \o PUBLIC_KEY_EXTENSION
        sourcePublicPath == sourcePath \o PUBLIC_KEY_EXTENSION
        private == copyKeyFile(ssh, sourcePath, fileName)
        public == copyKeyFile(private.dir, sourcePublicPath, publicName)
        keyInfo == getKeyInfo(KeyFile(fileName, TRUE, fingerprint))
        returned(dir) ==
            /\ ssh' = dir
            /\ last' = IF keyInfo.ok
                       THEN Outcome("import", fileName, "ok", "none", <<keyInfo.key.name>>)
                       ELSE Outcome("import", fileName, "error", "keyinfo", <<>>)
    IN  IF ssh.kind = "dir" /\ isFile(ssh.entries, fileName)
        THEN /\ last' = Outcome("import", fileName, "error", "exists", <<>>)
             /\ UNCHANGED ssh
        ELSE IF ~private.ok
        THEN /\ last' = Outcome("import", fileName, "error", "copy", <<>>)
             /\ UNCHANGED ssh
        ELSE IF ~isFile(SourceFiles, sourcePublicPath)
        THEN returned(private.dir)
        ELSE IF ~public.ok
        THEN /\ last' = Outcome("import", fileName, "error", "copy", <<>>)
             /\ ssh' = private.dir
        ELSE returned(public.dir)

InitImport ==
    /\ ConfigIdle
    /\ rt = RtIdle
    /\ ssh \in ImportDirs
    /\ store = <<>>
    /\ tmp = <<>>
    /\ now = 0
    /\ r = RestoreIdle
    /\ nBackups = 0
    /\ AuxIdle

ImportKey ==
    /\ nOps < MaxOps
    /\ nOps' = nOps + 1
    /\ \E sourcePath \in SourcePaths, fingerprint \in BOOLEAN :
         importSSHKey(sourcePath, fingerprint)
    /\ UNCHANGED <<cfgKind, cfgContent, rt, store, tmp, now, r, nBackups, auxVars>>

NextImport == ImportKey

SpecImport == InitImport /\ [][NextImport]_vars

\* C30 (as claimed): an import whose destination name is a file of SSH_DIR
\* fails and changes nothing, and any other import leaves every entry that
\* was in SSH_DIR as it was.
C30_ImportNeverOverwrites ==
    [][(nOps' = nOps + 1 /\ last'.op = "import") =>
          /\ (ssh.kind = "dir" /\ isFile(ssh.entries, last'.host))
                 => (last'.result = "error" /\ ssh' = ssh)
          /\ \A n \in DOMAIN ssh.entries :
                 n \in DOMAIN ssh'.entries /\ ssh'.entries[n] = ssh.entries[n]]_vars

====
